---- MODULE Spec2Model ----
(***************************************************************************)
(* Subscription vault: the subscription state machine and the balance      *)
(* accounting of contracts/subscription_vault (lib.rs, types.rs, test.rs). *)
(*                                                                         *)
(* One action per contract entrypoint.  A Soroban invocation is atomic: an *)
(* entrypoint that returns Err, or traps inside a collaborator (token      *)
(* transfer), has every storage write of the invocation rolled back by the *)
(* host, so a failing call changes nothing but `result`.                  *)
(* `x.require_auth()` is modelled by the call's address argument being the *)
(* signer of the invocation (the tests run under mock_all_auths).          *)
(***************************************************************************)
EXTENDS Integers, Sequences, FiniteSets, TLC

\* ------------------------------------------------------------------ bounds
\* Largest ledger timestamp the clock reaches.
MaxTime == 1
\* Token funds of the subscriber at deployment.  Every subscription costs at
\* least one token and the vault never pays a subscriber back, so this also
\* bounds the id counter.
InitFunds == 1
\* The same, for the specifications of the ledger alone (several subscriptions).
LedgerFunds == 2

\* Subscriptions created in the specification of arithmetic overflow.
MaxOverflowSubs == 2

\* ------------------------------------------------- error codes (lib.rs:8-19)
Ok == 0
NotFound == 404
Unauthorized == 401
BelowMinimumTopup == 402
InvalidAmount == 403
InsufficientAllowance == 405
TransferFailed == 406
InsufficientBalance == 407
InvalidStatus == 408
ArithmeticOverflow == 409
BelowMerchantMinimum == 410
\* types.rs:54, returned by the transition validator
InvalidStatusTransition == 400
\* types.rs:86, returned by recover_stranded_funds
InvalidRecoveryAmount == 1008
\* A trap inside the token contract (insufficient funds on transfer): the host
\* aborts the invocation, which returns no contract error code.
HostTrap == 9999

\* ------------------------------------------------------------- value sets
Subscribers == {"s1"}
Merchants == {"m1", "m2"}
\* Addresses passed as `authorizer` to pause / resume / cancel.
AuthorizerChoices == {"s1", "m1"}
Vault == "vault"
Holders == Subscribers \cup Merchants \cup {"adm", Vault}
IntervalChoices == {0, 1}
UsageChoices == {FALSE}

Active == "Active"
Paused == "Paused"
Cancelled == "Cancelled"
InsufficientBalanceStatus == "InsufficientBalance"
SubscriptionStatus == {Active, Paused, Cancelled, InsufficientBalanceStatus}

\* i128::MAX, scaled to the model's amounts: checked_add / checked_sub fail
\* outside -I128Max-1 .. I128Max.
I128Max == 2 * LedgerFunds + 1

\* Option<T>: None is <<>>, Some(v) is <<v>>.
None == << >>
Some(v) == << v >>
IsSome(o) == Len(o) = 1
Unwrap(o) == o[1]

\* Keyed storage: a function whose domain is the set of keys present.
EmptyMap == [k \in {} |-> 0]
Has(f, k) == k \in DOMAIN f
Put(f, k, v) == [x \in (DOMAIN f) \cup {k} |-> IF x = k THEN v ELSE f[x]]

VARIABLES
    token, admin, min_topup,    \* instance storage "token", "admin", "min_topup"
    next_id,                    \* instance storage "next_id"
    subs,                       \* instance storage: u32 id -> Subscription
    merchant_balance,           \* DataKey::MerchantBalance(merchant) -> i128
    merchant_config,            \* DataKey::MerchantConfig(merchant) -> MerchantConfig
    tok_balance, tok_allowance, \* the token contract: balances, allowance to the vault
    now,                        \* env.ledger().timestamp()
    result                      \* outcome of the last invocation: entrypoint, error
                                \* code (Ok on success), events it emitted

vars == << token, admin, min_topup, next_id, subs, merchant_balance,
           merchant_config, tok_balance, tok_allowance, now, result >>

\* ---------------------------------------------------------------- helpers
checked_add(a, b) == IF a + b > I128Max \/ a + b < 0 - I128Max - 1 THEN None ELSE Some(a + b)
checked_sub(a, b) == IF a - b > I128Max \/ a - b < 0 - I128Max - 1 THEN None ELSE Some(a - b)

DefaultMerchantConfig ==
    [version |-> 1, min_subscription_amount |-> 0, default_interval_seconds |-> 0]

read_merchant_balance(m) == IF Has(merchant_balance, m) THEN merchant_balance[m] ELSE 0

read_merchant_config(m) == IF Has(merchant_config, m) THEN merchant_config[m] ELSE DefaultMerchantConfig

get_merchant_balance(m) == read_merchant_balance(m)

get_merchant_config(m) == read_merchant_config(m)

get_subscription(id) == IF Has(subs, id) THEN Some(subs[id]) ELSE None

get_min_topup == min_topup

\* A faulty require_admin_or_merchant: any authenticated actor passes.
require_admin_or_merchant_any_actor(actor, merchant) ==
    IF ~IsSome(admin) THEN NotFound ELSE Ok

\* require_admin_or_merchant: Ok, or the error it returns.
require_admin_or_merchant(actor, merchant) ==
    IF ~IsSome(admin) THEN NotFound
    ELSE IF actor # merchant /\ actor # Unwrap(admin) THEN Unauthorized
    ELSE Ok

\* -------------------------------------------------- transition validator
\* The rows of the transition table, as get_allowed_transitions lists them.
get_allowed_transitions(from) ==
    CASE from = Active -> {Paused, Cancelled, InsufficientBalanceStatus}
      [] from = Paused -> {Active, Cancelled}
      [] from = Cancelled -> {}
      [] from = InsufficientBalanceStatus -> {Active, Cancelled}

\* A faulty validator: every transition out of InsufficientBalance is let
\* through, as for Active.
validate_status_transition_lax(from, to) ==
    IF from = to THEN Ok
    ELSE CASE from = Active ->
                 IF to \in {Paused, Cancelled, InsufficientBalanceStatus}
                 THEN Ok ELSE InvalidStatusTransition
           [] from = Paused ->
                 IF to \in {Active, Cancelled} THEN Ok ELSE InvalidStatusTransition
           [] from = Cancelled -> InvalidStatusTransition
           [] from = InsufficientBalanceStatus -> Ok

\* Ok, or InvalidStatusTransition.
validate_status_transition(from, to) ==
    IF from = to THEN Ok
    ELSE CASE from = Active ->
                 IF to \in {Paused, Cancelled, InsufficientBalanceStatus}
                 THEN Ok ELSE InvalidStatusTransition
           [] from = Paused ->
                 IF to \in {Active, Cancelled} THEN Ok ELSE InvalidStatusTransition
           [] from = Cancelled -> InvalidStatusTransition
           [] from = InsufficientBalanceStatus ->
                 IF to \in {Active, Cancelled} THEN Ok ELSE InvalidStatusTransition

can_transition(from, to) == validate_status_transition(from, to) = Ok

\* ---------------------------------------------------- next-charge helper
\* u64::MAX, scaled to the model's clock.
U64Max == MaxTime + 2

\* A faulty addition: the sum wraps around at u64::MAX.
saturating_add_wraps(a, b) == (a + b) % (U64Max + 1)

saturating_add(a, b) == IF a + b > U64Max THEN U64Max ELSE a + b

compute_next_charge_info(subscription) ==
    [next_charge_timestamp |->
        saturating_add(subscription.last_payment_timestamp, subscription.interval_seconds),
     is_charge_expected |->
        CASE subscription.status = Active -> TRUE
          [] subscription.status = InsufficientBalanceStatus -> TRUE
          [] subscription.status = Paused -> FALSE
          [] subscription.status = Cancelled -> FALSE]

get_next_charge_info(id) ==
    IF Has(subs, id) THEN Some(compute_next_charge_info(subs[id])) ELSE None

\* Everything but `result`.
state == << token, admin, min_topup, next_id, subs, merchant_balance,
            merchant_config, tok_balance, tok_allowance, now >>

\* A failing invocation: the host rolls the storage back, the caller sees e.
Fail(op, e) ==
    /\ result' = [op |-> op, err |-> e]
    /\ UNCHANGED state

FailSub(op, e, subscription_id) ==
    /\ result' = [op |-> op, err |-> e, id |-> subscription_id]
    /\ UNCHANGED state

\* ------------------------------------------------------------------- Init
\* The contract as deployed, before init; the subscriber owns `funds` tokens
\* and has approved the vault for one more than that.
InitWith(funds) ==
    /\ token = None
    /\ admin = None
    /\ min_topup = None
    /\ next_id = 0
    /\ subs = EmptyMap
    /\ merchant_balance = EmptyMap
    /\ merchant_config = EmptyMap
    /\ tok_balance = [h \in Holders |-> IF h \in Subscribers THEN funds ELSE 0]
    /\ tok_allowance = [s \in Subscribers |-> funds + 1]
    /\ now = 0
    /\ result = [op |-> "deploy", err |-> Ok]

Init == InitWith(InitFunds)

\* ---------------------------------------------------------------- actions
init(t, a, m) ==
    IF m <= 0 THEN Fail("init", InvalidAmount)
    ELSE /\ token' = Some(t)
         /\ admin' = Some(a)
         /\ min_topup' = Some(m)
         /\ result' = [op |-> "init", err |-> Ok]
         /\ UNCHANGED << next_id, subs, merchant_balance, merchant_config,
                         tok_balance, tok_allowance, now >>

\* A faulty set_min_topup: the caller is not compared with the stored admin.
set_min_topup_any_caller(a, m) ==
    IF m <= 0 THEN Fail("set_min_topup", InvalidAmount)
    ELSE IF ~IsSome(admin) THEN Fail("set_min_topup", NotFound)
    ELSE /\ min_topup' = Some(m)
         /\ result' = [op |-> "set_min_topup", err |-> Ok]
         /\ UNCHANGED << token, admin, next_id, subs, merchant_balance,
                         merchant_config, tok_balance, tok_allowance, now >>

set_min_topup(a, m) ==
    IF m <= 0 THEN Fail("set_min_topup", InvalidAmount)
    ELSE IF ~IsSome(admin) THEN Fail("set_min_topup", NotFound)
    ELSE IF a # Unwrap(admin) THEN Fail("set_min_topup", Unauthorized)
    ELSE /\ min_topup' = Some(m)
         /\ result' = [op |-> "set_min_topup", err |-> Ok]
         /\ UNCHANGED << token, admin, next_id, subs, merchant_balance,
                         merchant_config, tok_balance, tok_allowance, now >>

set_merchant_config(actor, merchant, min_subscription_amount, default_interval_seconds) ==
    IF min_subscription_amount < 0 THEN Fail("set_merchant_config", InvalidAmount)
    ELSE IF require_admin_or_merchant(actor, merchant) # Ok
         THEN Fail("set_merchant_config", require_admin_or_merchant(actor, merchant))
    ELSE /\ merchant_config' = Put(merchant_config, merchant,
                [version |-> 1,
                 min_subscription_amount |-> min_subscription_amount,
                 default_interval_seconds |-> default_interval_seconds])
         /\ result' = [op |-> "set_merchant_config", err |-> Ok]
         /\ UNCHANGED << token, admin, min_topup, next_id, subs, merchant_balance,
                         tok_balance, tok_allowance, now >>

\* min_opt / interval_opt are Option values: None keeps the stored field.
update_merchant_config(actor, merchant, min_opt, interval_opt) ==
    IF require_admin_or_merchant(actor, merchant) # Ok
         THEN Fail("update_merchant_config", require_admin_or_merchant(actor, merchant))
    ELSE IF IsSome(min_opt) /\ Unwrap(min_opt) < 0
         THEN Fail("update_merchant_config", InvalidAmount)
    ELSE LET current == read_merchant_config(merchant)
             withMin == IF IsSome(min_opt)
                        THEN [current EXCEPT !.min_subscription_amount = Unwrap(min_opt)]
                        ELSE current
             withInt == IF IsSome(interval_opt)
                        THEN [withMin EXCEPT !.default_interval_seconds = Unwrap(interval_opt)]
                        ELSE withMin
         IN  /\ merchant_config' = Put(merchant_config, merchant, withInt)
             /\ result' = [op |-> "update_merchant_config", err |-> Ok]
             /\ UNCHANGED << token, admin, min_topup, next_id, subs, merchant_balance,
                             tok_balance, tok_allowance, now >>

\* Faulty checks for a creation: the subscriber's token balance is not
\* compared with the amount.
create_subscription_check_no_balance(subscriber, merchant, amount, interval_seconds) ==
    LET merchant_cfg == read_merchant_config(merchant) IN
    IF amount <= 0 THEN InvalidAmount
    ELSE IF merchant_cfg.min_subscription_amount > 0
            /\ amount < merchant_cfg.min_subscription_amount
         THEN BelowMerchantMinimum
    ELSE IF interval_seconds = 0 /\ merchant_cfg.default_interval_seconds = 0
         THEN InvalidAmount
    ELSE IF ~IsSome(token) THEN NotFound
    ELSE IF tok_allowance[subscriber] < amount THEN InsufficientAllowance
    ELSE Ok

\* Faulty checks for a creation: an amount equal to the merchant's minimum is
\* refused (<= in place of <).
create_subscription_check_min_exclusive(subscriber, merchant, amount, interval_seconds) ==
    LET merchant_cfg == read_merchant_config(merchant) IN
    IF amount <= 0 THEN InvalidAmount
    ELSE IF merchant_cfg.min_subscription_amount > 0
            /\ amount <= merchant_cfg.min_subscription_amount
         THEN BelowMerchantMinimum
    ELSE IF interval_seconds = 0 /\ merchant_cfg.default_interval_seconds = 0
         THEN InvalidAmount
    ELSE IF ~IsSome(token) THEN NotFound
    ELSE IF tok_allowance[subscriber] < amount THEN InsufficientAllowance
    ELSE IF tok_balance[subscriber] < amount THEN TransferFailed
    ELSE Ok

\* Faulty checks for a creation: a default interval of 0 is accepted.
create_subscription_check_no_interval(subscriber, merchant, amount, interval_seconds) ==
    LET merchant_cfg == read_merchant_config(merchant) IN
    IF amount <= 0 THEN InvalidAmount
    ELSE IF merchant_cfg.min_subscription_amount > 0
            /\ amount < merchant_cfg.min_subscription_amount
         THEN BelowMerchantMinimum
    ELSE IF ~IsSome(token) THEN NotFound
    ELSE IF tok_allowance[subscriber] < amount THEN InsufficientAllowance
    ELSE IF tok_balance[subscriber] < amount THEN TransferFailed
    ELSE Ok

\* The checks of create_subscription, in the order the code makes them.
create_subscription_check(subscriber, merchant, amount, interval_seconds) ==
    LET merchant_cfg == read_merchant_config(merchant) IN
    IF amount <= 0 THEN InvalidAmount
    ELSE IF merchant_cfg.min_subscription_amount > 0
            /\ amount < merchant_cfg.min_subscription_amount
         THEN BelowMerchantMinimum
    ELSE IF interval_seconds = 0 /\ merchant_cfg.default_interval_seconds = 0
         THEN InvalidAmount
    ELSE IF ~IsSome(token) THEN NotFound
    ELSE IF tok_allowance[subscriber] < amount THEN InsufficientAllowance
    ELSE IF tok_balance[subscriber] < amount THEN TransferFailed
    ELSE Ok

\* A faulty creation: the id counter is read but not advanced.
create_subscription_reuses_id(subscriber, merchant, amount, interval_seconds, usage_enabled) ==
    LET e == create_subscription_check(subscriber, merchant, amount, interval_seconds)
        effective_interval_seconds ==
            IF interval_seconds = 0
            THEN read_merchant_config(merchant).default_interval_seconds
            ELSE interval_seconds
        id == next_id
    IN
    IF e # Ok THEN Fail("create_subscription", e)
    ELSE /\ tok_balance' = [tok_balance EXCEPT ![subscriber] = @ - amount,
                                               ![Vault] = @ + amount]
         /\ tok_allowance' = [tok_allowance EXCEPT ![subscriber] = @ - amount]
         /\ subs' = Put(subs, id,
                [subscriber |-> subscriber,
                 merchant |-> merchant,
                 amount |-> amount,
                 interval_seconds |-> effective_interval_seconds,
                 last_payment_timestamp |-> now,
                 status |-> Active,
                 prepaid_balance |-> amount,
                 usage_enabled |-> usage_enabled])
         /\ result' = [op |-> "create_subscription", err |-> Ok, id |-> id]
         /\ UNCHANGED << token, admin, min_topup, next_id, merchant_balance,
                         merchant_config, now >>

create_subscription(subscriber, merchant, amount, interval_seconds, usage_enabled) ==
    LET e == create_subscription_check(subscriber, merchant, amount, interval_seconds)
        effective_interval_seconds ==
            IF interval_seconds = 0
            THEN read_merchant_config(merchant).default_interval_seconds
            ELSE interval_seconds
        id == next_id
    IN
    IF e # Ok THEN Fail("create_subscription", e)
    ELSE /\ tok_balance' = [tok_balance EXCEPT ![subscriber] = @ - amount,
                                               ![Vault] = @ + amount]
         /\ tok_allowance' = [tok_allowance EXCEPT ![subscriber] = @ - amount]
         /\ subs' = Put(subs, id,
                [subscriber |-> subscriber,
                 merchant |-> merchant,
                 amount |-> amount,
                 interval_seconds |-> effective_interval_seconds,
                 last_payment_timestamp |-> now,
                 status |-> Active,
                 prepaid_balance |-> amount,
                 usage_enabled |-> usage_enabled])
         /\ next_id' = id + 1
         /\ result' = [op |-> "create_subscription", err |-> Ok, id |-> id]
         /\ UNCHANGED << token, admin, min_topup, merchant_balance, merchant_config, now >>

\* A faulty deposit: the prepaid balance is raised but no tokens are pulled
\* from the subscriber.
deposit_funds_credits_without_transfer(subscription_id, subscriber, amount) ==
    IF amount <= 0 THEN FailSub("deposit_funds", InvalidAmount, subscription_id)
    ELSE IF ~IsSome(min_topup) THEN FailSub("deposit_funds", NotFound, subscription_id)
    ELSE IF amount < Unwrap(min_topup)
         THEN FailSub("deposit_funds", BelowMinimumTopup, subscription_id)
    ELSE IF ~Has(subs, subscription_id)
         THEN FailSub("deposit_funds", NotFound, subscription_id)
    ELSE /\ subs' = [subs EXCEPT ![subscription_id].prepaid_balance =
                        IF @ + amount > I128Max THEN @ ELSE @ + amount]
         /\ result' = [op |-> "deposit_funds", err |-> Ok, id |-> subscription_id]
         /\ UNCHANGED << token, admin, min_topup, next_id, merchant_balance,
                         merchant_config, tok_balance, tok_allowance, now >>

\* A faulty deposit: an amount equal to the minimum top-up is refused.
deposit_funds_min_exclusive(subscription_id, subscriber, amount) ==
    IF amount <= 0 THEN FailSub("deposit_funds", InvalidAmount, subscription_id)
    ELSE IF ~IsSome(min_topup) THEN FailSub("deposit_funds", NotFound, subscription_id)
    ELSE IF amount <= Unwrap(min_topup)
         THEN FailSub("deposit_funds", BelowMinimumTopup, subscription_id)
    ELSE /\ result' = [op |-> "deposit_funds", err |-> Ok, id |-> subscription_id]
         /\ UNCHANGED state

deposit_funds(subscription_id, subscriber, amount) ==
    IF amount <= 0 THEN FailSub("deposit_funds", InvalidAmount, subscription_id)
    ELSE IF ~IsSome(min_topup) THEN FailSub("deposit_funds", NotFound, subscription_id)
    ELSE IF amount < Unwrap(min_topup)
         THEN FailSub("deposit_funds", BelowMinimumTopup, subscription_id)
    ELSE /\ result' = [op |-> "deposit_funds", err |-> Ok, id |-> subscription_id]
         /\ UNCHANGED state

\* Faulty checks for a charge: the status is not looked at.
charge_subscription_check_no_status(subscription) ==
    IF subscription.prepaid_balance < subscription.amount THEN InsufficientBalance
    ELSE IF ~IsSome(checked_sub(subscription.prepaid_balance, subscription.amount))
         THEN ArithmeticOverflow
    ELSE IF ~IsSome(checked_add(read_merchant_balance(subscription.merchant),
                                subscription.amount))
         THEN ArithmeticOverflow
    ELSE Ok

\* The checks of charge_subscription on a loaded subscription.
charge_subscription_check(subscription) ==
    IF subscription.status # Active THEN InvalidStatus
    ELSE IF subscription.prepaid_balance < subscription.amount THEN InsufficientBalance
    ELSE IF ~IsSome(checked_sub(subscription.prepaid_balance, subscription.amount))
         THEN ArithmeticOverflow
    ELSE IF ~IsSome(checked_add(read_merchant_balance(subscription.merchant),
                                subscription.amount))
         THEN ArithmeticOverflow
    ELSE Ok

\* i128::wrapping_add, on the model's scaled range.
wrapping_add(a, b) ==
    IF a + b > I128Max THEN a + b - 2 * (I128Max + 1)
    ELSE IF a + b < 0 - I128Max - 1 THEN a + b + 2 * (I128Max + 1)
    ELSE a + b

\* A faulty charge: the merchant's credit is added without the overflow check.
charge_subscription_wrapping_credit(subscription_id) ==
    IF ~Has(subs, subscription_id)
    THEN FailSub("charge_subscription", NotFound, subscription_id)
    ELSE
    LET subscription == subs[subscription_id]
        e == IF subscription.status # Active THEN InvalidStatus
             ELSE IF subscription.prepaid_balance < subscription.amount
                  THEN InsufficientBalance
             ELSE Ok
    IN
    IF e # Ok THEN FailSub("charge_subscription", e, subscription_id)
    ELSE /\ subs' = [subs EXCEPT ![subscription_id] =
                        [@ EXCEPT !.prepaid_balance = @ - subscription.amount,
                                  !.last_payment_timestamp = now]]
         /\ merchant_balance' = Put(merchant_balance, subscription.merchant,
                wrapping_add(read_merchant_balance(subscription.merchant),
                             subscription.amount))
         /\ result' = [op |-> "charge_subscription", err |-> Ok, id |-> subscription_id]
         /\ UNCHANGED << token, admin, min_topup, next_id, merchant_config,
                         tok_balance, tok_allowance, now >>

\* A faulty charge: last_payment_timestamp is not moved to the ledger time.
charge_subscription_keeps_timestamp(subscription_id) ==
    IF ~Has(subs, subscription_id)
    THEN FailSub("charge_subscription", NotFound, subscription_id)
    ELSE
    LET subscription == subs[subscription_id]
        e == charge_subscription_check(subscription)
    IN
    IF e # Ok THEN FailSub("charge_subscription", e, subscription_id)
    ELSE /\ subs' = [subs EXCEPT ![subscription_id] =
                        [@ EXCEPT !.prepaid_balance = @ - subscription.amount]]
         /\ merchant_balance' = Put(merchant_balance, subscription.merchant,
                read_merchant_balance(subscription.merchant) + subscription.amount)
         /\ result' = [op |-> "charge_subscription", err |-> Ok, id |-> subscription_id]
         /\ UNCHANGED << token, admin, min_topup, next_id, merchant_config,
                         tok_balance, tok_allowance, now >>

\* A faulty charge: the merchant's credit overwrites the stored balance
\* instead of adding to it.
charge_subscription_overwrites_credit(subscription_id) ==
    IF ~Has(subs, subscription_id)
    THEN FailSub("charge_subscription", NotFound, subscription_id)
    ELSE
    LET subscription == subs[subscription_id]
        e == charge_subscription_check(subscription)
    IN
    IF e # Ok THEN FailSub("charge_subscription", e, subscription_id)
    ELSE /\ subs' = [subs EXCEPT ![subscription_id] =
                        [@ EXCEPT !.prepaid_balance = @ - subscription.amount,
                                  !.last_payment_timestamp = now]]
         /\ merchant_balance' = Put(merchant_balance, subscription.merchant,
                                    subscription.amount)
         /\ result' = [op |-> "charge_subscription", err |-> Ok, id |-> subscription_id]
         /\ UNCHANGED << token, admin, min_topup, next_id, merchant_config,
                         tok_balance, tok_allowance, now >>

\* A faulty charge: the updated record is stored under the id handed out
\* last instead of the id charged.
charge_subscription_wrong_key(subscription_id) ==
    IF ~Has(subs, subscription_id)
    THEN FailSub("charge_subscription", NotFound, subscription_id)
    ELSE
    LET subscription == subs[subscription_id]
        e == charge_subscription_check(subscription)
        updated_prepaid == checked_sub(subscription.prepaid_balance, subscription.amount)
        current_merchant_balance == read_merchant_balance(subscription.merchant)
        updated_merchant_balance == checked_add(current_merchant_balance, subscription.amount)
    IN
    IF e # Ok THEN FailSub("charge_subscription", e, subscription_id)
    ELSE /\ subs' = [subs EXCEPT ![next_id - 1] =
                        [subscription EXCEPT !.prepaid_balance = Unwrap(updated_prepaid),
                                             !.last_payment_timestamp = now]]
         /\ merchant_balance' = Put(merchant_balance, subscription.merchant,
                                    Unwrap(updated_merchant_balance))
         /\ result' = [op |-> "charge_subscription", err |-> Ok, id |-> subscription_id]
         /\ UNCHANGED << token, admin, min_topup, next_id, merchant_config,
                         tok_balance, tok_allowance, now >>

\* A faulty charge: the payment time is advanced by one interval instead of
\* being set to the ledger time.
charge_subscription_advances_by_interval(subscription_id) ==
    IF ~Has(subs, subscription_id)
    THEN FailSub("charge_subscription", NotFound, subscription_id)
    ELSE
    LET subscription == subs[subscription_id]
        e == charge_subscription_check(subscription)
        updated_prepaid == checked_sub(subscription.prepaid_balance, subscription.amount)
        current_merchant_balance == read_merchant_balance(subscription.merchant)
        updated_merchant_balance == checked_add(current_merchant_balance, subscription.amount)
    IN
    IF e # Ok THEN FailSub("charge_subscription", e, subscription_id)
    ELSE /\ subs' = [subs EXCEPT ![subscription_id] =
                        [@ EXCEPT !.prepaid_balance = Unwrap(updated_prepaid),
                                  !.last_payment_timestamp =
                                      @ + subscription.interval_seconds]]
         /\ merchant_balance' = Put(merchant_balance, subscription.merchant,
                                    Unwrap(updated_merchant_balance))
         /\ result' = [op |-> "charge_subscription", err |-> Ok, id |-> subscription_id]
         /\ UNCHANGED << token, admin, min_topup, next_id, merchant_config,
                         tok_balance, tok_allowance, now >>

charge_subscription(subscription_id) ==
    IF ~Has(subs, subscription_id)
    THEN FailSub("charge_subscription", NotFound, subscription_id)
    ELSE
    LET subscription == subs[subscription_id]
        e == charge_subscription_check(subscription)
        updated_prepaid == checked_sub(subscription.prepaid_balance, subscription.amount)
        current_merchant_balance == read_merchant_balance(subscription.merchant)
        updated_merchant_balance == checked_add(current_merchant_balance, subscription.amount)
    IN
    IF e # Ok THEN FailSub("charge_subscription", e, subscription_id)
    ELSE /\ subs' = [subs EXCEPT ![subscription_id] =
                        [@ EXCEPT !.prepaid_balance = Unwrap(updated_prepaid),
                                  !.last_payment_timestamp = now]]
         /\ merchant_balance' = Put(merchant_balance, subscription.merchant,
                                    Unwrap(updated_merchant_balance))
         /\ result' = [op |-> "charge_subscription", err |-> Ok, id |-> subscription_id]
         /\ UNCHANGED << token, admin, min_topup, next_id, merchant_config,
                         tok_balance, tok_allowance, now >>

\* lib.rs:291-300: authorizes, then returns Ok; the body is a TODO.
\* A faulty cancel: the subscription's record is removed from storage.
cancel_subscription_removes(subscription_id, authorizer) ==
    /\ subs' = [i \in DOMAIN subs \ {subscription_id} |-> subs[i]]
    /\ result' = [op |-> "cancel_subscription", err |-> Ok, id |-> subscription_id]
    /\ UNCHANGED << token, admin, min_topup, next_id, merchant_balance,
                    merchant_config, tok_balance, tok_allowance, now >>

cancel_subscription(subscription_id, authorizer) ==
    /\ result' = [op |-> "cancel_subscription", err |-> Ok, id |-> subscription_id]
    /\ UNCHANGED state

\* A faulty pause: it stores Paused whatever the current status is.
pause_subscription_unvalidated(subscription_id, authorizer) ==
    IF ~Has(subs, subscription_id)
    THEN FailSub("pause_subscription", NotFound, subscription_id)
    ELSE /\ subs' = [subs EXCEPT ![subscription_id] = [@ EXCEPT !.status = Paused]]
         /\ result' = [op |-> "pause_subscription", err |-> Ok, id |-> subscription_id]
         /\ UNCHANGED << token, admin, min_topup, next_id, merchant_balance,
                         merchant_config, tok_balance, tok_allowance, now >>

\* A faulty pause: only an Active subscription may be paused, so pausing a
\* Paused one is an error.
pause_subscription_strict(subscription_id, authorizer) ==
    IF ~Has(subs, subscription_id)
    THEN FailSub("pause_subscription", NotFound, subscription_id)
    ELSE IF subs[subscription_id].status # Active
         THEN FailSub("pause_subscription", InvalidStatusTransition, subscription_id)
    ELSE /\ subs' = [subs EXCEPT ![subscription_id] = [@ EXCEPT !.status = Paused]]
         /\ result' = [op |-> "pause_subscription", err |-> Ok, id |-> subscription_id]
         /\ UNCHANGED << token, admin, min_topup, next_id, merchant_balance,
                         merchant_config, tok_balance, tok_allowance, now >>

\* lib.rs:303-312: authorizes, then returns Ok; the body is a TODO.
\* A faulty pause: an Active subscription is paused for whoever asks.
pause_subscription_any_authorizer(subscription_id, authorizer) ==
    IF ~Has(subs, subscription_id)
    THEN FailSub("pause_subscription", NotFound, subscription_id)
    ELSE IF subs[subscription_id].status \notin {Active, Paused}
         THEN FailSub("pause_subscription", InvalidStatus, subscription_id)
    ELSE /\ subs' = [subs EXCEPT ![subscription_id] = [@ EXCEPT !.status = Paused]]
         /\ result' = [op |-> "pause_subscription", err |-> Ok, id |-> subscription_id]
         /\ UNCHANGED << token, admin, min_topup, next_id, merchant_balance,
                         merchant_config, tok_balance, tok_allowance, now >>

pause_subscription(subscription_id, authorizer) ==
    /\ result' = [op |-> "pause_subscription", err |-> Ok, id |-> subscription_id]
    /\ UNCHANGED state

\* Faulty checks for a withdrawal: the comparison with the merchant's
\* accumulated balance is missing.
withdraw_merchant_funds_check_no_balance(merchant, amount) ==
    IF amount <= 0 THEN InvalidAmount
    ELSE IF ~IsSome(checked_sub(read_merchant_balance(merchant), amount))
         THEN ArithmeticOverflow
    ELSE IF ~IsSome(token) THEN NotFound
    ELSE IF tok_balance[Vault] < amount THEN HostTrap
    ELSE Ok

\* Faulty checks for a withdrawal: the amount is compared with the tokens in
\* custody instead of the merchant's accumulated balance.
withdraw_merchant_funds_check_custody(merchant, amount) ==
    IF amount <= 0 THEN InvalidAmount
    ELSE IF tok_balance[Vault] < amount THEN InsufficientBalance
    ELSE IF ~IsSome(checked_sub(read_merchant_balance(merchant), amount))
         THEN ArithmeticOverflow
    ELSE IF ~IsSome(token) THEN NotFound
    ELSE Ok

\* Faulty checks for a withdrawal: a withdrawal of the whole balance is
\* refused (<= in place of <).
withdraw_merchant_funds_check_strict(merchant, amount) ==
    IF amount <= 0 THEN InvalidAmount
    ELSE IF read_merchant_balance(merchant) <= amount THEN InsufficientBalance
    ELSE IF ~IsSome(checked_sub(read_merchant_balance(merchant), amount))
         THEN ArithmeticOverflow
    ELSE IF ~IsSome(token) THEN NotFound
    ELSE IF tok_balance[Vault] < amount THEN HostTrap
    ELSE Ok

\* The checks of withdraw_merchant_funds; the last is the token contract's own
\* check on the transfer out of custody.
withdraw_merchant_funds_check(merchant, amount) ==
    IF amount <= 0 THEN InvalidAmount
    ELSE IF read_merchant_balance(merchant) < amount THEN InsufficientBalance
    ELSE IF ~IsSome(checked_sub(read_merchant_balance(merchant), amount))
         THEN ArithmeticOverflow
    ELSE IF ~IsSome(token) THEN NotFound
    ELSE IF tok_balance[Vault] < amount THEN HostTrap
    ELSE Ok

\* A faulty withdrawal: the debit written ahead of the token transfer stays
\* in storage when the transfer fails.
withdraw_merchant_funds_debit_survives(merchant, amount) ==
    LET e == withdraw_merchant_funds_check(merchant, amount)
        updated_balance == read_merchant_balance(merchant) - amount
    IN
    IF e = HostTrap
    THEN /\ merchant_balance' = Put(merchant_balance, merchant, updated_balance)
         /\ result' = [op |-> "withdraw_merchant_funds", err |-> e,
                        merchant |-> merchant, amount |-> amount]
         /\ UNCHANGED << token, admin, min_topup, next_id, subs, merchant_config,
                         tok_balance, tok_allowance, now >>
    ELSE IF e # Ok
    THEN /\ result' = [op |-> "withdraw_merchant_funds", err |-> e,
                        merchant |-> merchant, amount |-> amount]
         /\ UNCHANGED state
    ELSE /\ merchant_balance' = Put(merchant_balance, merchant, updated_balance)
         /\ tok_balance' = [tok_balance EXCEPT ![Vault] = @ - amount,
                                               ![merchant] = @ + amount]
         /\ result' = [op |-> "withdraw_merchant_funds", err |-> Ok,
                        merchant |-> merchant, amount |-> amount]
         /\ UNCHANGED << token, admin, min_topup, next_id, subs, merchant_config,
                         tok_allowance, now >>

\* A faulty withdrawal: the debit is the amount, the transfer is the whole
\* balance.
withdraw_merchant_funds_pays_balance(merchant, amount) ==
    LET e == withdraw_merchant_funds_check(merchant, amount)
        current_balance == read_merchant_balance(merchant)
    IN
    IF e # Ok
    THEN /\ result' = [op |-> "withdraw_merchant_funds", err |-> e,
                        merchant |-> merchant, amount |-> amount]
         /\ UNCHANGED state
    ELSE /\ merchant_balance' = Put(merchant_balance, merchant, current_balance - amount)
         /\ tok_balance' = [tok_balance EXCEPT ![Vault] = @ - current_balance,
                                               ![merchant] = @ + current_balance]
         /\ result' = [op |-> "withdraw_merchant_funds", err |-> Ok,
                        merchant |-> merchant, amount |-> amount]
         /\ UNCHANGED << token, admin, min_topup, next_id, subs, merchant_config,
                         tok_allowance, now >>

withdraw_merchant_funds(merchant, amount) ==
    LET e == withdraw_merchant_funds_check(merchant, amount)
        current_balance == read_merchant_balance(merchant)
        updated_balance == checked_sub(current_balance, amount)
    IN
    IF e # Ok
    THEN /\ result' = [op |-> "withdraw_merchant_funds", err |-> e,
                        merchant |-> merchant, amount |-> amount]
         /\ UNCHANGED state
    ELSE /\ merchant_balance' = Put(merchant_balance, merchant, Unwrap(updated_balance))
         /\ tok_balance' = [tok_balance EXCEPT ![Vault] = @ - amount,
                                               ![merchant] = @ + amount]
         /\ result' = [op |-> "withdraw_merchant_funds", err |-> Ok,
                        merchant |-> merchant, amount |-> amount]
         /\ UNCHANGED << token, admin, min_topup, next_id, subs, merchant_config,
                         tok_allowance, now >>

\* Not in lib.rs: load, authorizer is the subscriber or the merchant, validate
\* the transition to Active, persist.
resume_subscription(subscription_id, authorizer) ==
    IF ~Has(subs, subscription_id)
    THEN FailSub("resume_subscription", NotFound, subscription_id)
    ELSE IF authorizer \notin {subs[subscription_id].subscriber,
                               subs[subscription_id].merchant}
         THEN FailSub("resume_subscription", Unauthorized, subscription_id)
    ELSE IF validate_status_transition(subs[subscription_id].status, Active) # Ok
         THEN FailSub("resume_subscription", InvalidStatusTransition, subscription_id)
    ELSE /\ subs' = [subs EXCEPT ![subscription_id] = [@ EXCEPT !.status = Active]]
         /\ result' = [op |-> "resume_subscription", err |-> Ok, id |-> subscription_id]
         /\ UNCHANGED << token, admin, min_topup, next_id, merchant_balance,
                         merchant_config, tok_balance, tok_allowance, now >>

\* types.rs RecoveryReason.
RecoveryReason == {"AccidentalTransfer", "DeprecatedFlow", "UnreachableSubscriber"}

\* A faulty recovery: an amount of zero is let through.
recover_stranded_funds_accepts_zero(caller, recipient, amount, reason) ==
    IF ~IsSome(admin) THEN Fail("recover_stranded_funds", NotFound)
    ELSE IF caller # Unwrap(admin) THEN Fail("recover_stranded_funds", Unauthorized)
    ELSE IF amount < 0 THEN Fail("recover_stranded_funds", InvalidRecoveryAmount)
    ELSE IF ~IsSome(token) THEN Fail("recover_stranded_funds", NotFound)
    ELSE IF tok_balance[Vault] < amount THEN Fail("recover_stranded_funds", HostTrap)
    ELSE /\ tok_balance' = [tok_balance EXCEPT ![Vault] = @ - amount,
                                               ![recipient] = @ + amount]
         /\ result' = [op |-> "recover_stranded_funds", err |-> Ok,
                        events |-> << [admin |-> caller, recipient |-> recipient,
                                       amount |-> amount, reason |-> reason,
                                       timestamp |-> now] >>]
         /\ UNCHANGED << token, admin, min_topup, next_id, subs, merchant_balance,
                         merchant_config, tok_allowance, now >>

\* Not in lib.rs: admin check, amount check, transfer out of custody, audit record.
\* A faulty recovery: the tokens are taken out of the subscriptions' prepaid
\* balances as well as out of custody.
recover_stranded_funds_from_escrow(caller, recipient, amount, reason) ==
    IF ~IsSome(admin) THEN Fail("recover_stranded_funds", NotFound)
    ELSE IF caller # Unwrap(admin) THEN Fail("recover_stranded_funds", Unauthorized)
    ELSE IF amount <= 0 THEN Fail("recover_stranded_funds", InvalidRecoveryAmount)
    ELSE IF ~IsSome(token) THEN Fail("recover_stranded_funds", NotFound)
    ELSE IF tok_balance[Vault] < amount THEN Fail("recover_stranded_funds", HostTrap)
    ELSE /\ tok_balance' = [tok_balance EXCEPT ![Vault] = @ - amount,
                                               ![recipient] = @ + amount]
         /\ subs' = [id \in DOMAIN subs |-> [subs[id] EXCEPT !.prepaid_balance = 0]]
         /\ result' = [op |-> "recover_stranded_funds", err |-> Ok,
                        events |-> << [admin |-> caller, recipient |-> recipient,
                                       amount |-> amount, reason |-> reason,
                                       timestamp |-> now] >>]
         /\ UNCHANGED << token, admin, min_topup, next_id, merchant_balance,
                         merchant_config, tok_allowance, now >>

\* A faulty recovery: all of custody goes to the recipient, whatever the
\* amount asked for.
recover_stranded_funds_takes_custody(caller, recipient, amount, reason) ==
    IF ~IsSome(admin) THEN Fail("recover_stranded_funds", NotFound)
    ELSE IF caller # Unwrap(admin) THEN Fail("recover_stranded_funds", Unauthorized)
    ELSE IF amount <= 0 THEN Fail("recover_stranded_funds", InvalidRecoveryAmount)
    ELSE IF ~IsSome(token) THEN Fail("recover_stranded_funds", NotFound)
    ELSE IF tok_balance[Vault] < amount THEN Fail("recover_stranded_funds", HostTrap)
    ELSE /\ tok_balance' = [tok_balance EXCEPT ![Vault] = 0,
                                               ![recipient] = @ + tok_balance[Vault]]
         /\ result' = [op |-> "recover_stranded_funds", err |-> Ok,
                        events |-> << [admin |-> caller, recipient |-> recipient,
                                       amount |-> amount, reason |-> reason,
                                       timestamp |-> now] >>]
         /\ UNCHANGED << token, admin, min_topup, next_id, subs, merchant_balance,
                         merchant_config, tok_allowance, now >>

recover_stranded_funds(caller, recipient, amount, reason) ==
    IF ~IsSome(admin) THEN Fail("recover_stranded_funds", NotFound)
    ELSE IF caller # Unwrap(admin) THEN Fail("recover_stranded_funds", Unauthorized)
    ELSE IF amount <= 0 THEN Fail("recover_stranded_funds", InvalidRecoveryAmount)
    ELSE IF ~IsSome(token) THEN Fail("recover_stranded_funds", NotFound)
    ELSE IF tok_balance[Vault] < amount THEN Fail("recover_stranded_funds", HostTrap)
    ELSE /\ tok_balance' = [tok_balance EXCEPT ![Vault] = @ - amount,
                                               ![recipient] = @ + amount]
         /\ result' = [op |-> "recover_stranded_funds", err |-> Ok,
                        events |-> << [admin |-> caller, recipient |-> recipient,
                                       amount |-> amount, reason |-> reason,
                                       timestamp |-> now] >>]
         /\ UNCHANGED << token, admin, min_topup, next_id, subs, merchant_balance,
                         merchant_config, tok_allowance, now >>

\* ------------------------------------------------------------ batch charge
\* One charge_subscription of a batch, on the storage (S: subscriptions,
\* B: merchant balances) that the earlier ids of the batch left behind.
charge_one(S, B, subscription_id) ==
    IF ~Has(S, subscription_id)
    THEN [subs |-> S, merchant_balance |-> B, err |-> NotFound]
    ELSE
    LET subscription == S[subscription_id]
        current_merchant_balance ==
            IF Has(B, subscription.merchant) THEN B[subscription.merchant] ELSE 0
        updated_prepaid == checked_sub(subscription.prepaid_balance, subscription.amount)
        updated_merchant_balance == checked_add(current_merchant_balance, subscription.amount)
        e == IF subscription.status # Active THEN InvalidStatus
             ELSE IF subscription.prepaid_balance < subscription.amount
                  THEN InsufficientBalance
             ELSE IF ~IsSome(updated_prepaid) THEN ArithmeticOverflow
             ELSE IF ~IsSome(updated_merchant_balance) THEN ArithmeticOverflow
             ELSE Ok
    IN
    IF e # Ok THEN [subs |-> S, merchant_balance |-> B, err |-> e]
    ELSE [subs |-> [S EXCEPT ![subscription_id] =
                       [@ EXCEPT !.prepaid_balance = Unwrap(updated_prepaid),
                                 !.last_payment_timestamp = now]],
          merchant_balance |-> Put(B, subscription.merchant,
                                   Unwrap(updated_merchant_balance)),
          err |-> Ok]

\* types.rs BatchChargeResult.
BatchChargeResult(e) == [success |-> e = Ok, error_code |-> e]

\* Not in lib.rs: the ids are charged one after the other, each on the
\* storage left by the ones before it, and every outcome is collected.
RECURSIVE batch_run(_, _, _)
batch_run(S, B, ids) ==
    IF ids = << >>
    THEN [subs |-> S, merchant_balance |-> B, results |-> << >>]
    ELSE LET one == charge_one(S, B, Head(ids))
             rest == batch_run(one.subs, one.merchant_balance, Tail(ids))
         IN [subs |-> rest.subs,
             merchant_balance |-> rest.merchant_balance,
             results |-> << BatchChargeResult(one.err) >> \o rest.results]

\* A faulty batch: when any id fails, the charges that succeeded are undone.
batch_charge_all_or_nothing(ids) ==
    LET run == batch_run(subs, merchant_balance, ids)
        failed == \E i \in 1 .. Len(run.results) : ~run.results[i].success
    IN
    /\ subs' = IF failed THEN subs ELSE run.subs
    /\ merchant_balance' = IF failed THEN merchant_balance ELSE run.merchant_balance
    /\ result' = [op |-> "batch_charge", err |-> Ok, ids |-> ids,
                  results |-> run.results]
    /\ UNCHANGED << token, admin, min_topup, next_id, merchant_config,
                    tok_balance, tok_allowance, now >>

batch_charge(ids) ==
    LET run == batch_run(subs, merchant_balance, ids) IN
    /\ subs' = run.subs
    /\ merchant_balance' = run.merchant_balance
    /\ result' = [op |-> "batch_charge", err |-> Ok, ids |-> ids,
                  results |-> run.results]
    /\ UNCHANGED << token, admin, min_topup, next_id, merchant_config,
                    tok_balance, tok_allowance, now >>

\* test.rs writes a status straight into storage to set a test up
\* (create_test_subscription, test_all_valid_transitions_coverage): always on
\* a subscription that is still Active.
test_set_status(subscription_id, status) ==
    /\ Has(subs, subscription_id)
    /\ subs[subscription_id].status = Active
    /\ subs' = [subs EXCEPT ![subscription_id] = [@ EXCEPT !.status = status]]
    /\ result' = [op |-> "test_set_status", err |-> Ok, id |-> subscription_id]
    /\ UNCHANGED << token, admin, min_topup, next_id, merchant_balance,
                    merchant_config, tok_balance, tok_allowance, now >>

\* The token contract's transfer, called by a holder on its own: tokens sent
\* to the vault's address outside any entrypoint.
token_transfer(from, to, amount) ==
    /\ amount > 0
    /\ tok_balance[from] >= amount
    /\ tok_balance' = [tok_balance EXCEPT ![from] = @ - amount, ![to] = @ + amount]
    /\ result' = [op |-> "token_transfer", err |-> Ok]
    /\ UNCHANGED << token, admin, min_topup, next_id, subs, merchant_balance,
                    merchant_config, tok_allowance, now >>

\* The token contract's approve, called by a subscriber ahead of
\* create_subscription ("must approve this contract as spender").
token_approve(subscriber, amount) ==
    /\ tok_allowance' = [tok_allowance EXCEPT ![subscriber] = amount]
    /\ result' = [op |-> "token_approve", err |-> Ok]
    /\ UNCHANGED << token, admin, min_topup, next_id, subs, merchant_balance,
                    merchant_config, tok_balance, now >>

\* The ledger clock moves on between invocations.
Tick ==
    /\ now < MaxTime
    /\ now' = now + 1
    /\ result' = [op |-> "tick", err |-> Ok]
    /\ UNCHANGED << token, admin, min_topup, next_id, subs, merchant_balance,
                    merchant_config, tok_balance, tok_allowance >>

\* ----------------------------------------------------------- specifications
\* Ids and amounts passed to the entrypoints when the subscriber owns `funds`.
SubIds(funds) == 0 .. (funds - 1)
AmountChoices(funds) == 0 .. (funds + 1)

\* Every public entrypoint.
Next ==
    \/ \E m \in {0, 1} : init("usdc", "adm", m)
    \/ \E a \in {"adm", "m2"}, m \in {0, 2} : set_min_topup(a, m)
    \/ \E a \in {"m1", "m2"}, mn \in {0 - 1, 2} : set_merchant_config(a, "m1", mn, 1)
    \/ \E a \in {"adm", "m2"}, mn \in {None, Some(0 - 1), Some(0)} :
          update_merchant_config(a, "m1", mn, None)
    \/ \E s \in Subscribers, m \in Merchants, amt \in AmountChoices(InitFunds),
          i \in IntervalChoices, u \in UsageChoices :
          create_subscription(s, m, amt, i, u)
    \/ \E id \in SubIds(InitFunds), s \in Subscribers, amt \in AmountChoices(InitFunds) :
          deposit_funds(id, s, amt)
    \/ \E id \in SubIds(InitFunds) : charge_subscription(id)
    \/ \E id \in SubIds(InitFunds), a \in AuthorizerChoices : cancel_subscription(id, a)
    \/ \E id \in SubIds(InitFunds), a \in AuthorizerChoices : pause_subscription(id, a)
    \/ \E id \in SubIds(InitFunds), a \in AuthorizerChoices : resume_subscription(id, a)
    \/ \E m \in Merchants, amt \in AmountChoices(InitFunds) : withdraw_merchant_funds(m, amt)
    \/ \E c \in {"adm", "m2"}, amt \in {0, 1} :
          recover_stranded_funds(c, "adm", amt, "AccidentalTransfer")
    \/ Tick

Spec == Init /\ [][Next]_vars

\* The ledger alone, with funds for several subscriptions.
InitLedger == InitWith(LedgerFunds)

NextLedger ==
    \/ init("usdc", "adm", 1)
    \/ \E s \in Subscribers, m \in Merchants, amt \in AmountChoices(LedgerFunds),
          u \in UsageChoices :
          create_subscription(s, m, amt, 1, u)
    \/ \E id \in SubIds(LedgerFunds) : charge_subscription(id)
    \/ \E m \in Merchants, amt \in AmountChoices(LedgerFunds) : withdraw_merchant_funds(m, amt)
    \/ Tick

SpecLedger == InitLedger /\ [][NextLedger]_vars

\* Every public entrypoint, and the tests' direct write of a status.
NextFixture ==
    \/ init("usdc", "adm", 1)
    \/ set_min_topup("m2", 1)
    \/ set_merchant_config("m1", "m1", 0, 1)
    \/ update_merchant_config("m2", "m1", None, None)
    \/ \E s \in Subscribers, m \in Merchants : create_subscription(s, m, 1, 1, FALSE)
    \/ \E id \in SubIds(InitFunds), s \in Subscribers : deposit_funds(id, s, 1)
    \/ \E id \in SubIds(InitFunds) : charge_subscription(id)
    \/ \E id \in SubIds(InitFunds) : cancel_subscription(id, "s1")
    \/ \E id \in SubIds(InitFunds) : pause_subscription(id, "s1")
    \/ \E id \in SubIds(InitFunds) : resume_subscription(id, "s1")
    \/ \E m \in Merchants : withdraw_merchant_funds(m, 1)
    \/ recover_stranded_funds("adm", "adm", 1, "UnreachableSubscriber")
    \/ Tick
    \/ \E id \in SubIds(InitFunds), st \in SubscriptionStatus \ {Active} :
          test_set_status(id, st)

SpecFixture == Init /\ [][NextFixture]_vars
\* Arithmetic at the edge of i128: the subscriber owns the largest amount
\* there is, and tokens the admin recovers to the subscriber are subscribed
\* again.
InitOverflow ==
    /\ token = None
    /\ admin = None
    /\ min_topup = None
    /\ next_id = 0
    /\ subs = EmptyMap
    /\ merchant_balance = EmptyMap
    /\ merchant_config = EmptyMap
    /\ tok_balance = [h \in Holders |-> IF h \in Subscribers THEN I128Max ELSE 0]
    /\ tok_allowance = [s \in Subscribers |-> I128Max]
    /\ now = 0
    /\ result = [op |-> "deploy", err |-> Ok]

NextOverflow ==
    \/ init("usdc", "adm", 1)
    \/ /\ next_id < MaxOverflowSubs
       /\ \E amt \in {1, I128Max} : create_subscription("s1", "m1", amt, 1, FALSE)
    \/ \E id \in 0 .. (MaxOverflowSubs - 1) : charge_subscription(id)
    \/ \E amt \in {1, I128Max} :
          recover_stranded_funds("adm", "s1", amt, "AccidentalTransfer")
    \/ token_approve("s1", I128Max)
    \/ Tick

SpecOverflow == InitOverflow /\ [][NextOverflow]_vars

\* --------------------------------------------- withdrawal, statement by statement
\* withdraw_merchant_funds in two steps, split where control passes to the
\* token contract.  Between the steps `result` holds the invocation's frame:
\* its arguments, the storage to restore if the invocation fails, and the
\* outcome of a withdrawal made from inside the transfer, if any.
InFlight == "pc" \in DOMAIN result

\* A faulty first step: the debit is left for after the transfer.
withdraw_begin_without_debit(merchant, amount) ==
    LET e == withdraw_merchant_funds_check(merchant, amount) IN
    /\ ~InFlight
    /\ IF e \notin {Ok, HostTrap}
       THEN /\ result' = [op |-> "withdraw_merchant_funds", err |-> e,
                           merchant |-> merchant, amount |-> amount]
            /\ UNCHANGED state
       ELSE /\ result' = [op |-> "withdraw_merchant_funds", pc |-> "transfer",
                           merchant |-> merchant, amount |-> amount,
                           saved_balance |-> merchant_balance,
                           saved_tok |-> tok_balance,
                           nested |-> None]
            /\ UNCHANGED state

\* lib.rs:324-345: the checks, the write of the debit, the token lookup.
withdraw_begin(merchant, amount) ==
    LET e == withdraw_merchant_funds_check(merchant, amount) IN
    /\ ~InFlight
    /\ IF e \notin {Ok, HostTrap}
       THEN /\ result' = [op |-> "withdraw_merchant_funds", err |-> e,
                           merchant |-> merchant, amount |-> amount]
            /\ UNCHANGED state
       ELSE /\ merchant_balance' = Put(merchant_balance, merchant,
                   Unwrap(checked_sub(read_merchant_balance(merchant), amount)))
            /\ result' = [op |-> "withdraw_merchant_funds", pc |-> "transfer",
                           merchant |-> merchant, amount |-> amount,
                           saved_balance |-> merchant_balance,
                           saved_tok |-> tok_balance,
                           nested |-> None]
            /\ UNCHANGED << token, admin, min_topup, next_id, subs, merchant_config,
                            tok_balance, tok_allowance, now >>

\* lib.rs:346-347: the transfer, then Ok(()); a transfer that fails aborts the
\* invocation and the host restores the storage.
withdraw_transfer ==
    /\ InFlight
    /\ IF tok_balance[Vault] < result.amount
       THEN /\ merchant_balance' = result.saved_balance
            /\ tok_balance' = result.saved_tok
            /\ result' = [op |-> "withdraw_merchant_funds", err |-> HostTrap,
                           merchant |-> result.merchant, amount |-> result.amount]
       ELSE /\ tok_balance' = [tok_balance EXCEPT ![Vault] = @ - result.amount,
                                                  ![result.merchant] = @ + result.amount]
            /\ result' = [op |-> "withdraw_merchant_funds", err |-> Ok,
                           merchant |-> result.merchant, amount |-> result.amount]
            /\ UNCHANGED merchant_balance
    /\ UNCHANGED << token, admin, min_topup, next_id, subs, merchant_config,
                    tok_allowance, now >>

\* A withdrawal by the same merchant entered while the transfer runs: the
\* whole of withdraw_merchant_funds, on the storage as it is at that moment.
withdraw_reentered(amount) ==
    /\ InFlight
    /\ result.nested = None
    /\ LET merchant == result.merchant
           e == withdraw_merchant_funds_check(merchant, amount)
       IN  IF e # Ok
           THEN /\ result' = [result EXCEPT !.nested = Some(e)]
                /\ UNCHANGED state
           ELSE /\ merchant_balance' = Put(merchant_balance, merchant,
                       Unwrap(checked_sub(read_merchant_balance(merchant), amount)))
                /\ tok_balance' = [tok_balance EXCEPT ![Vault] = @ - amount,
                                                      ![merchant] = @ + amount]
                /\ result' = [result EXCEPT !.nested = Some(Ok)]
                /\ UNCHANGED << token, admin, min_topup, next_id, subs,
                                merchant_config, tok_allowance, now >>

NextSteps ==
    \/ ~InFlight /\ init("usdc", "adm", 1)
    \/ /\ ~InFlight
       /\ \E m \in Merchants, amt \in 1 .. LedgerFunds :
             create_subscription("s1", m, amt, 1, FALSE)
    \/ ~InFlight /\ \E id \in SubIds(LedgerFunds) : charge_subscription(id)
    \/ \E m \in Merchants, amt \in AmountChoices(LedgerFunds) : withdraw_begin(m, amt)
    \/ withdraw_transfer
    \/ \E amt \in 1 .. LedgerFunds : withdraw_reentered(amt)

SpecSteps == InitLedger /\ [][NextSteps]_vars

\* Creation under merchant configurations that change.
NextCreate ==
    \/ init("usdc", "adm", 1)
    \/ \E mn \in {0, 2}, di \in {0, 2} : set_merchant_config("m1", "m1", mn, di)
    \/ update_merchant_config("adm", "m1", None, Some(0))
    \/ \E m \in Merchants, amt \in AmountChoices(LedgerFunds), i \in IntervalChoices :
          create_subscription("s1", m, amt, i, FALSE)
    \/ token_approve("s1", 1)
    \/ Tick

SpecCreate == InitLedger /\ [][NextCreate]_vars

\* The pure helpers, applied to a stored subscription of any status and timing.
InitPure ==
    /\ token = None
    /\ admin = None
    /\ min_topup = None
    /\ next_id = 1
    /\ \E st \in SubscriptionStatus, lpt \in 0 .. U64Max, i \in 0 .. U64Max,
          p \in {0, 1} :
          subs = Put(EmptyMap, 0,
                [subscriber |-> "s1",
                 merchant |-> "m1",
                 amount |-> 1,
                 interval_seconds |-> i,
                 last_payment_timestamp |-> lpt,
                 status |-> st,
                 prepaid_balance |-> p,
                 usage_enabled |-> FALSE])
    /\ merchant_balance = EmptyMap
    /\ merchant_config = EmptyMap
    /\ tok_balance = [h \in Holders |-> IF h = Vault THEN 1 ELSE 0]
    /\ tok_allowance = [s \in Subscribers |-> 0]
    /\ now = 0
    /\ result = [op |-> "deploy", err |-> Ok]

apply_validate_status_transition(id, to) ==
    /\ result' = [op |-> "validate_status_transition",
                  from |-> subs[id].status, to |-> to,
                  err |-> validate_status_transition(subs[id].status, to)]
    /\ UNCHANGED state

apply_can_transition(id, to) ==
    /\ result' = [op |-> "can_transition",
                  from |-> subs[id].status, to |-> to,
                  ok |-> can_transition(subs[id].status, to)]
    /\ UNCHANGED state

apply_get_allowed_transitions(id) ==
    /\ result' = [op |-> "get_allowed_transitions",
                  from |-> subs[id].status,
                  targets |-> get_allowed_transitions(subs[id].status)]
    /\ UNCHANGED state

apply_get_next_charge_info(id) ==
    /\ result' = [op |-> "get_next_charge_info", id |-> id,
                  info |-> get_next_charge_info(id)]
    /\ UNCHANGED state

NextPure ==
    \/ \E to \in SubscriptionStatus : apply_validate_status_transition(0, to)
    \/ \E to \in SubscriptionStatus : apply_can_transition(0, to)
    \/ apply_get_allowed_transitions(0)
    \/ \E id \in {0, 1} : apply_get_next_charge_info(id)

SpecPure == InitPure /\ [][NextPure]_vars

\* Deposits against every minimum top-up the contract can hold: unset, set by
\* init, replaced by set_min_topup.
DepositAmounts == 0 .. (InitFunds + 1)

NextDeposit ==
    \/ \E m \in {0, 1} : init("usdc", "adm", m)
    \/ \E a \in {"adm", "m2"} : set_min_topup(a, 2)
    \/ create_subscription("s1", "m1", 1, 1, FALSE)
    \/ \E id \in SubIds(InitFunds), amt \in DepositAmounts :
          deposit_funds(id, "s1", amt)
    \/ \E id \in SubIds(InitFunds) : charge_subscription(id)
    \/ Tick

SpecDeposit == Init /\ [][NextDeposit]_vars

\* The next-charge query beside the lifecycle entrypoints.
NextDue ==
    \/ init("usdc", "adm", 1)
    \/ create_subscription("s1", "m1", 1, 1, FALSE)
    \/ \E id \in SubIds(InitFunds) : charge_subscription(id)
    \/ \E id \in SubIds(InitFunds) : pause_subscription(id, "s1")
    \/ \E id \in SubIds(InitFunds) : resume_subscription(id, "s1")
    \/ \E id \in SubIds(InitFunds) : cancel_subscription(id, "s1")
    \/ \E id \in SubIds(InitFunds) : apply_get_next_charge_info(id)
    \/ \E id \in SubIds(InitFunds), st \in SubscriptionStatus \ {Active} :
          test_set_status(id, st)
    \/ Tick

SpecDue == Init /\ [][NextDue]_vars

\* Batches over the subscriptions of the ledger: empty, single, an id
\* repeated, an id never created first, last and in the middle.
BatchIds ==
    { << >>, << 0 >>, << 1 >>, << 0, 0 >>, << 0, 1 >>, << LedgerFunds, 0 >>,
      << 1, LedgerFunds >>, << 0, LedgerFunds, 1 >>, << 1, 1, 0 >> }

NextBatch ==
    \/ init("usdc", "adm", 1)
    \/ \E m \in Merchants : create_subscription("s1", m, 1, 1, FALSE)
    \/ \E id \in SubIds(LedgerFunds) : charge_subscription(id)
    \/ \E ids \in BatchIds : batch_charge(ids)
    \/ \E id \in SubIds(LedgerFunds) : test_set_status(id, Paused)
    \/ Tick

SpecBatch == InitLedger /\ [][NextBatch]_vars

\* Recovery beside the ledgers: tokens reach custody through subscriptions
\* and through transfers made to the vault by mistake.
RecoverCallers == {"adm", "m2"}
RecoverAmounts == (0 - 1) .. LedgerFunds

NextRecover ==
    \/ init("usdc", "adm", 1)
    \/ create_subscription("s1", "m1", 1, 1, FALSE)
    \/ \E id \in SubIds(LedgerFunds) : charge_subscription(id)
    \/ withdraw_merchant_funds("m1", 1)
    \/ token_transfer("s1", Vault, 1)
    \/ \E c \in RecoverCallers, amt \in RecoverAmounts, r \in RecoveryReason :
          recover_stranded_funds(c, "adm", amt, r)
    \/ Tick

SpecRecover == InitLedger /\ [][NextRecover]_vars

\* The administrative entrypoints, called by the admin, by merchants and by
\* strangers, with valid and invalid values, before and after init.
AdminTokens == {"usdc", "usdx"}
AdminCallers == {"adm", "m1", "m2"}
TopupChoices == (0 - 1) .. (InitFunds + 1)
MinAmountChoices == (0 - 1) .. InitFunds

NextAdmin ==
    \/ \E t \in AdminTokens, a \in {"adm", "m2"}, m \in {0, 1} : init(t, a, m)
    \/ \E a \in AdminCallers, m \in TopupChoices : set_min_topup(a, m)
    \/ \E a \in AdminCallers, mn \in MinAmountChoices, di \in IntervalChoices :
          set_merchant_config(a, "m1", mn, di)
    \/ \E a \in AdminCallers, mn \in {None} \cup {Some(x) : x \in MinAmountChoices},
          di \in {None, Some(1)} :
          update_merchant_config(a, "m1", mn, di)

SpecAdmin == Init /\ [][NextAdmin]_vars

\* The lifecycle entrypoints, authorized by the subscriber, by either
\* merchant and by the admin.
LifecycleCallers == {"s1", "m1", "m2", "adm"}

NextAuth ==
    \/ init("usdc", "adm", 1)
    \/ \E m \in Merchants : create_subscription("s1", m, 1, 1, FALSE)
    \/ \E id \in SubIds(InitFunds), a \in LifecycleCallers : pause_subscription(id, a)
    \/ \E id \in SubIds(InitFunds), a \in LifecycleCallers : resume_subscription(id, a)
    \/ \E id \in SubIds(InitFunds), a \in LifecycleCallers : cancel_subscription(id, a)
    \/ \E id \in SubIds(InitFunds), st \in SubscriptionStatus \ {Active} :
          test_set_status(id, st)
    \/ Tick

SpecAuth == Init /\ [][NextAuth]_vars

\* The entrypoints that move value or change a subscription, without
\* recovery and without transfers made to the vault from outside.
NextSolvency ==
    \/ init("usdc", "adm", 1)
    \/ \E m \in Merchants, amt \in 1 .. LedgerFunds :
          create_subscription("s1", m, amt, 1, FALSE)
    \/ \E id \in SubIds(LedgerFunds) : deposit_funds(id, "s1", 1)
    \/ \E id \in SubIds(LedgerFunds) : charge_subscription(id)
    \/ \E id \in SubIds(LedgerFunds) : pause_subscription(id, "s1")
    \/ \E id \in SubIds(LedgerFunds) : resume_subscription(id, "s1")
    \/ \E id \in SubIds(LedgerFunds) : cancel_subscription(id, "s1")
    \/ \E m \in Merchants, amt \in 1 .. LedgerFunds : withdraw_merchant_funds(m, amt)

SpecSolvency == InitLedger /\ [][NextSolvency]_vars

\* ------------------------------------------------------------- properties
RECURSIVE SumOver(_, _)
SumOver(f, S) ==
    IF S = {} THEN 0
    ELSE LET k == CHOOSE x \in S : TRUE
         IN  f[k] + SumOver(f, S \ {k})

TotalPrepaid ==
    SumOver([id \in DOMAIN subs |-> subs[id].prepaid_balance], DOMAIN subs)

TotalMerchant == SumOver(merchant_balance, DOMAIN merchant_balance)

\* C1: over charge calls the prepaid balances lose in total exactly what the
\* merchant balances gain in total, and a successful charge debits its
\* subscription by exactly the amount it credits to that subscription's merchant.
C1_ChargeConservation ==
    [][result'.op = "charge_subscription" =>
        /\ TotalPrepaid - TotalPrepaid' = TotalMerchant' - TotalMerchant
        /\ result'.err = Ok =>
             LET id == result'.id
                 m == subs[id].merchant
             IN  /\ subs[id].prepaid_balance - subs'[id].prepaid_balance
                       = subs[id].amount
                 /\ Has(merchant_balance', m)
                 /\ merchant_balance'[m] - read_merchant_balance(m) = subs[id].amount
                 /\ \A o \in DOMAIN subs \ {id} : subs'[o] = subs[o]
                 /\ \A o \in DOMAIN merchant_balance \ {m} :
                       merchant_balance'[o] = merchant_balance[o]
      ]_vars

\* Two charges have credited the same merchant, the second just now.
C1_Witness ==
    /\ result.op = "charge_subscription"
    /\ result.err = Ok
    /\ \E a, b \in DOMAIN subs :
          /\ a # b
          /\ subs[a].merchant = subs[b].merchant
          /\ subs[a].prepaid_balance = 0
          /\ subs[b].prepaid_balance = 0
          /\ read_merchant_balance(subs[a].merchant) = subs[a].amount + subs[b].amount

\* C2: after any sequence of public operations every prepaid balance and
\* every merchant balance is at least zero.
C2_NonNegativeBalances ==
    /\ \A id \in DOMAIN subs : subs[id].prepaid_balance >= 0
    /\ \A m \in DOMAIN merchant_balance : merchant_balance[m] >= 0

\* A merchant has just withdrawn all it had earned from a subscription that
\* is now drained.
C2_Witness ==
    /\ result.op = "withdraw_merchant_funds"
    /\ result.err = Ok
    /\ merchant_balance[result.merchant] = 0
    /\ \E id \in DOMAIN subs :
          subs[id].merchant = result.merchant /\ subs[id].prepaid_balance = 0

\* The transition table as the specification states it.
TransitionTable ==
    [from \in SubscriptionStatus |->
        CASE from = Active -> {Paused, Cancelled, InsufficientBalanceStatus}
          [] from = Paused -> {Active, Cancelled}
          [] from = InsufficientBalanceStatus -> {Active, Cancelled}
          [] from = Cancelled -> {}]

\* C3: the validator accepts a pair of statuses exactly when it is a
\* self-transition or in the table, and rejects every other pair with
\* InvalidStatusTransition; get_allowed_transitions returns the table's row
\* (3, 2, 0 and 2 targets); can_transition agrees with the validator.
C3_ValidatorTable ==
    /\ result.op = "validate_status_transition" =>
          /\ result.err \in {Ok, InvalidStatusTransition}
          /\ result.err = Ok <=>
                (result.from = result.to \/ result.to \in TransitionTable[result.from])
    /\ result.op = "get_allowed_transitions" =>
          /\ result.targets = TransitionTable[result.from]
          /\ Cardinality(result.targets) =
                CASE result.from = Active -> 3
                  [] result.from = Paused -> 2
                  [] result.from = Cancelled -> 0
                  [] result.from = InsufficientBalanceStatus -> 2
    /\ result.op = "can_transition" =>
          result.ok = (validate_status_transition(result.from, result.to) = Ok)

\* The validator has rejected InsufficientBalance -> Paused.
C3_Witness ==
    /\ result.op = "validate_status_transition"
    /\ result.from = InsufficientBalanceStatus
    /\ result.to = Paused
    /\ result.err = InvalidStatusTransition

\* C4: once a subscription is Cancelled, no operation changes its status.
C4_CancelledIsTerminal ==
    [][\A id \in DOMAIN subs :
          subs[id].status = Cancelled =>
             Has(subs', id) /\ subs'[id].status = Cancelled]_vars

\* A pause has been attempted on a Cancelled subscription.
C4_Witness ==
    /\ result.op = "pause_subscription"
    /\ Has(subs, result.id)
    /\ subs[result.id].status = Cancelled

\* C5: pause or resume on a Cancelled subscription, and pause on an
\* InsufficientBalance one, fail with InvalidStatusTransition and leave the
\* status as it was.  (A pause never yields Cancelled or InsufficientBalance
\* and a resume never yields Cancelled, so the status after the call is the
\* status before it.)
C5_IllegalTransitionRejected ==
    /\ (/\ result.op = "pause_subscription"
        /\ Has(subs, result.id)
        /\ subs[result.id].status \in {Cancelled, InsufficientBalanceStatus})
          => result.err = InvalidStatusTransition
    /\ (/\ result.op = "resume_subscription"
        /\ Has(subs, result.id)
        /\ subs[result.id].status = Cancelled)
          => result.err = InvalidStatusTransition

\* C6: a successful pause leaves the subscription Paused, a successful cancel
\* leaves it Cancelled, a successful resume leaves it Active.
C6_LegalTransitionTakesEffect ==
    (result.err = Ok /\ result.op \in {"pause_subscription", "cancel_subscription",
                                       "resume_subscription"}
       /\ Has(subs, result.id))
      => subs[result.id].status =
            CASE result.op = "pause_subscription" -> Paused
              [] result.op = "cancel_subscription" -> Cancelled
              [] result.op = "resume_subscription" -> Active

\* C6, second half: pause, cancel and resume fail with NotFound when the id
\* has no subscription.
C6_MissingIdIsNotFound ==
    (result.op \in {"pause_subscription", "cancel_subscription", "resume_subscription"}
       /\ ~Has(subs, result.id))
      => result.err = NotFound

\* C7: pause on a Paused subscription and cancel on a Cancelled one succeed
\* and change neither the subscription records nor the merchant balances.
C7_SelfTransitionIsNoOp ==
    [][(\/ /\ result'.op = "pause_subscription"
           /\ Has(subs, result'.id)
           /\ subs[result'.id].status = Paused
        \/ /\ result'.op = "cancel_subscription"
           /\ Has(subs, result'.id)
           /\ subs[result'.id].status = Cancelled)
         => /\ result'.err = Ok
            /\ subs' = subs
            /\ merchant_balance' = merchant_balance]_vars

\* A pause of a Paused subscription that has been charged before has succeeded.
C7_Witness ==
    /\ result.op = "pause_subscription"
    /\ result.err = Ok
    /\ Has(subs, result.id)
    /\ subs[result.id].status = Paused
    /\ read_merchant_balance(subs[result.id].merchant) > 0

\* C8: a charge of a subscription that is not Active fails with InvalidStatus
\* and changes nothing, whatever its prepaid balance.
C8_ChargeNeedsActive ==
    [][(/\ result'.op = "charge_subscription"
        /\ Has(subs, result'.id)
        /\ subs[result'.id].status # Active)
         => /\ result'.err = InvalidStatus
            /\ UNCHANGED state]_vars

\* A charge of a Paused subscription that holds enough for it was refused.
C8_Witness ==
    /\ result.op = "charge_subscription"
    /\ result.err = InvalidStatus
    /\ subs[result.id].status = Paused
    /\ subs[result.id].prepaid_balance >= subs[result.id].amount

\* C9: a charge that fails for lack of prepaid balance leaves the stored
\* status InsufficientBalance.
C9_FailedChargeSetsStatus ==
    (result.op = "charge_subscription" /\ result.err = InsufficientBalance)
      => subs[result.id].status = InsufficientBalanceStatus

C11_OverflowSafeCharge ==
    [][result'.op = "charge_subscription" =>
        /\ (/\ Has(subs, result'.id)
            /\ subs[result'.id].status = Active
            /\ subs[result'.id].prepaid_balance >= subs[result'.id].amount
            /\ read_merchant_balance(subs[result'.id].merchant)
                  + subs[result'.id].amount > I128Max)
             => /\ result'.err = ArithmeticOverflow
                /\ UNCHANGED state
        /\ \A m \in DOMAIN merchant_balance' :
              /\ merchant_balance'[m] \in 0 .. I128Max
              /\ merchant_balance'[m] >= read_merchant_balance(m)
      ]_vars

\* A charge has been refused for overflow while the merchant's balance is the
\* largest i128, at a ledger time later than the subscription's last payment.
C11_Witness ==
    /\ result.op = "charge_subscription"
    /\ result.err = ArithmeticOverflow
    /\ read_merchant_balance(subs[result.id].merchant) = I128Max
    /\ subs[result.id].prepaid_balance = subs[result.id].amount
    /\ subs[result.id].last_payment_timestamp < now

\* The outcomes of an invocation: success, one of the contract's errors, or
\* a failure inside the token contract.
Outcomes ==
    {Ok, NotFound, Unauthorized, BelowMinimumTopup, InvalidAmount,
     InsufficientAllowance, TransferFailed, InsufficientBalance, InvalidStatus,
     ArithmeticOverflow, BelowMerchantMinimum, InvalidStatusTransition,
     InvalidRecoveryAmount, HostTrap}

Earned(m) ==
    SumOver([id \in DOMAIN subs |->
                IF subs[id].merchant = m
                THEN subs[id].amount - subs[id].prepaid_balance ELSE 0],
            DOMAIN subs)

\* C13: while the token transfer of a withdrawal runs, the merchant's stored
\* balance is already lower by the amount and the tokens have not moved yet;
\* whatever is withdrawn from inside the transfer or after it, a merchant is
\* never paid more than its subscriptions were charged.
C13_DebitBeforeTransfer ==
    /\ InFlight =>
          /\ read_merchant_balance(result.merchant) <=
                result.saved_balance[result.merchant] - result.amount
          /\ result.nested = None =>
                /\ read_merchant_balance(result.merchant) =
                      result.saved_balance[result.merchant] - result.amount
                /\ tok_balance = result.saved_tok
          /\ result.nested # None =>
                (Unwrap(result.nested) = Ok <=> tok_balance # result.saved_tok)
    /\ \A m \in Merchants :
          tok_balance[m] + read_merchant_balance(m)
             + (IF InFlight /\ result.merchant = m THEN result.amount ELSE 0)
          = Earned(m)

\* A withdrawal of the whole balance is in its transfer, and the same
\* withdrawal entered again from there was refused for lack of balance.
C13_Witness ==
    /\ InFlight
    /\ result.amount > 0
    /\ read_merchant_balance(result.merchant) = 0
    /\ result.nested = Some(InsufficientBalance)
    /\ tok_balance[result.merchant] = 0

\* A withdrawal directly after a successful withdrawal of the same amount by
\* the same merchant.
RepeatedWithdraw ==
    /\ result.op = "withdraw_merchant_funds"
    /\ result.err = Ok
    /\ result'.op = "withdraw_merchant_funds"
    /\ result'.merchant = result.merchant
    /\ result'.amount = result.amount

C16_WithdrawConservation ==
    [][result'.op = "withdraw_merchant_funds" =>
        LET merchant == result'.merchant
            amount == result'.amount
        IN  /\ tok_balance[Vault] - tok_balance'[Vault] = TotalMerchant - TotalMerchant'
            /\ result'.err = Ok =>
                  /\ merchant_balance' = Put(merchant_balance, merchant,
                                             read_merchant_balance(merchant) - amount)
                  /\ tok_balance' = [tok_balance EXCEPT ![Vault] = @ - amount,
                                                        ![merchant] = @ + amount]
                  /\ subs' = subs
      ]_vars

\* A merchant has withdrawn part of its balance.
C16_Witness ==
    /\ result.op = "withdraw_merchant_funds"
    /\ result.err = Ok
    /\ merchant_balance[result.merchant] > 0
    /\ tok_balance[result.merchant] = result.amount

\* The arguments create_subscription is called with.
CreateAmounts == AmountChoices(LedgerFunds)
CreateIntervals == IntervalChoices

\* C17: a creation that fails one of its checks (amount, merchant minimum,
\* interval, allowance giving InsufficientAllowance, subscriber balance giving
\* TransferFailed) moves no tokens, stores no record and leaves the id counter
\* where it was; the creation that succeeds next gets that id.
C17_FailedCreateLeavesNoTrace ==
    [][\A s \in Subscribers, m \in Merchants, amt \in CreateAmounts,
          i \in CreateIntervals :
          create_subscription(s, m, amt, i, FALSE) =>
             LET cfg == read_merchant_config(m)
                 fails ==
                    \/ amt <= 0
                    \/ cfg.min_subscription_amount > 0 /\ amt < cfg.min_subscription_amount
                    \/ i = 0 /\ cfg.default_interval_seconds = 0
                    \/ tok_allowance[s] < amt
                    \/ tok_balance[s] < amt
                    \/ ~IsSome(token)
             IN  /\ fails <=> result'.err # Ok
                 /\ fails => UNCHANGED state
                 /\ (IsSome(token) /\ amt > 0 /\ tok_allowance[s] < amt)
                       => result'.err \in {InsufficientAllowance, BelowMerchantMinimum,
                                           InvalidAmount}
                 /\ (IsSome(token) /\ amt > 0 /\ tok_allowance[s] >= amt
                       /\ tok_balance[s] < amt)
                       => result'.err \in {TransferFailed, BelowMerchantMinimum,
                                           InvalidAmount}
                 /\ ~fails => result'.id = next_id /\ next_id' = next_id + 1]_vars

\* After one subscription was created, a creation was refused for allowance,
\* and the id counter still stands at 1.
C17_Witness ==
    /\ result.op = "create_subscription"
    /\ result.err = InsufficientAllowance
    /\ next_id = 1
    /\ DOMAIN subs = {0}
    /\ tok_balance["s1"] > 0

\* C18: a successful creation moves the amount from the subscriber to the
\* vault and stores, under an id no record has, an Active subscription with
\* prepaid_balance = amount and last_payment_timestamp = now; the records
\* already stored are untouched, and the ids in use are always 0, 1, 2, ...
\* up to the counter.
C18_SuccessfulCreate ==
    [][/\ DOMAIN subs' = 0 .. (next_id' - 1)
       /\ \A s \in Subscribers, m \in Merchants, amt \in CreateAmounts,
             i \in CreateIntervals :
             (create_subscription(s, m, amt, i, FALSE) /\ result'.err = Ok) =>
                LET id == result'.id IN
                /\ tok_balance' = [tok_balance EXCEPT ![s] = @ - amt,
                                                      ![Vault] = @ + amt]
                /\ id = Cardinality(DOMAIN subs)
                /\ ~Has(subs, id)
                /\ DOMAIN subs' = DOMAIN subs \cup {id}
                /\ \A o \in DOMAIN subs : subs'[o] = subs[o]
                /\ subs'[id].subscriber = s
                /\ subs'[id].merchant = m
                /\ subs'[id].amount = amt
                /\ subs'[id].status = Active
                /\ subs'[id].prepaid_balance = amt
                /\ subs'[id].last_payment_timestamp = now]_vars

\* A second subscription has just been created, later than the first, and
\* the vault holds the amounts of both.
C18_Witness ==
    /\ result.op = "create_subscription"
    /\ result.err = Ok
    /\ result.id = 1
    /\ DOMAIN subs = {0, 1}
    /\ subs[0].last_payment_timestamp < subs[1].last_payment_timestamp
    /\ subs[1].last_payment_timestamp = now
    /\ tok_balance[Vault] = subs[0].amount + subs[1].amount

\* C19: with a merchant minimum m > 0 a creation with 0 < amount < m fails
\* with BelowMerchantMinimum, and one with amount = m succeeds when the other
\* checks pass; with m = 0, or amount >= m, no creation fails for the minimum.
C19_MerchantMinimum ==
    [][\A s \in Subscribers, m \in Merchants, amt \in CreateAmounts,
          i \in CreateIntervals :
          create_subscription(s, m, amt, i, FALSE) =>
             LET cfg == read_merchant_config(m)
                 min == cfg.min_subscription_amount
             IN  /\ (amt > 0 /\ min > 0 /\ amt < min)
                       => result'.err = BelowMerchantMinimum
                 /\ (amt > 0 /\ (min = 0 \/ amt >= min))
                       => result'.err # BelowMerchantMinimum
                 /\ (/\ amt > 0
                     /\ min = 0 \/ amt >= min
                     /\ i # 0 \/ cfg.default_interval_seconds # 0
                     /\ IsSome(token)
                     /\ tok_allowance[s] >= amt
                     /\ tok_balance[s] >= amt)
                       => result'.err = Ok]_vars

\* A subscription for exactly the merchant's minimum has been created.
C19_Witness ==
    /\ result.op = "create_subscription"
    /\ result.err = Ok
    /\ read_merchant_config(subs[result.id].merchant).min_subscription_amount > 0
    /\ subs[result.id].amount =
          read_merchant_config(subs[result.id].merchant).min_subscription_amount

\* C20: a creation with interval 0 stores the merchant's default interval,
\* and fails with InvalidAmount when that is 0 too; with an interval > 0 it
\* stores the interval asked for; no stored subscription has interval 0.
C20_EffectiveInterval ==
    [][/\ \A id \in DOMAIN subs' : subs'[id].interval_seconds # 0
       /\ \A s \in Subscribers, m \in Merchants, amt \in CreateAmounts,
             i \in CreateIntervals :
             create_subscription(s, m, amt, i, FALSE) =>
                LET cfg == read_merchant_config(m) IN
                /\ (/\ amt > 0
                    /\ cfg.min_subscription_amount = 0
                          \/ amt >= cfg.min_subscription_amount
                    /\ i = 0
                    /\ cfg.default_interval_seconds = 0)
                      => result'.err = InvalidAmount
                /\ result'.err = Ok =>
                      subs'[result'.id].interval_seconds =
                         IF i = 0 THEN cfg.default_interval_seconds ELSE i]_vars

\* A subscription holds the default interval its merchant had when it was
\* created; the merchant's default has since been set back to 0.
C20_Witness ==
    \E id \in DOMAIN subs :
       /\ subs[id].interval_seconds = 2
       /\ Has(merchant_config, subs[id].merchant)
       /\ merchant_config[subs[id].merchant].default_interval_seconds = 0

\* C21: a successful deposit_funds(id, subscriber, amount) on a stored
\* subscription moves exactly `amount` tokens from the subscriber into the
\* vault and raises that subscription's prepaid_balance by exactly `amount`,
\* leaving its status, every other subscription and every merchant balance
\* as they were.
C21_DepositCredits ==
    [][result'.op = "deposit_funds" =>
         \A id \in SubIds(InitFunds), amt \in DepositAmounts :
            (deposit_funds(id, "s1", amt) /\ result'.err = Ok /\ Has(subs, id)) =>
               /\ tok_balance'["s1"] = tok_balance["s1"] - amt
               /\ tok_balance'[Vault] = tok_balance[Vault] + amt
               /\ subs' = [subs EXCEPT ![id].prepaid_balance = @ + amt]
               /\ merchant_balance' = merchant_balance]_vars

\* C22: deposit_funds refuses an amount of zero or less with InvalidAmount
\* whatever the minimum top-up is (set or not), refuses a positive amount
\* under the stored minimum with BelowMinimumTopup, and accepts an amount
\* equal to or above it; the stored minimum is the one init or
\* set_min_topup wrote last.
C22_DepositValidation ==
    [][/\ result'.op = "deposit_funds" =>
            \A id \in SubIds(InitFunds), amt \in DepositAmounts :
               deposit_funds(id, "s1", amt) =>
                  /\ amt <= 0 => result'.err = InvalidAmount
                  /\ (amt > 0 /\ IsSome(min_topup) /\ amt < Unwrap(min_topup))
                        => result'.err = BelowMinimumTopup
                  /\ (amt > 0 /\ IsSome(min_topup) /\ amt >= Unwrap(min_topup))
                        => result'.err = Ok
       /\ (result'.op = "init" /\ result'.err = Ok) =>
             (IsSome(min_topup') /\ Unwrap(min_topup') \in {0, 1})
       /\ (result'.op = "set_min_topup" /\ result'.err = Ok) =>
             min_topup' = Some(2)
       /\ result'.op \notin {"init", "set_min_topup"} =>
             min_topup' = min_topup]_vars

C22_Witness ==
    /\ result.op = "deposit_funds"
    /\ result.err = Ok
    /\ min_topup = Some(2)
    /\ Has(subs, result.id)

\* C23: a charge_subscription(id) that comes after a successful
\* pause_subscription(id), with no resume in between, fails and leaves the
\* subscription's prepaid_balance and its merchant's balance as they were.
\* Stated for the charge that follows the pause directly.
C23_NoChargeWhilePaused ==
    [][(/\ result.op = "pause_subscription"
        /\ result.err = Ok
        /\ Has(subs, result.id)
        /\ result'.op = "charge_subscription"
        /\ result'.id = result.id) =>
          /\ result'.err # Ok
          /\ subs' = subs
          /\ merchant_balance' = merchant_balance]_vars

\* C24: a subscription in InsufficientBalance can be neither charged nor
\* paused; a successful deposit of one token into it leaves the status alone
\* and raises prepaid_balance by that token; and the charge that follows a
\* successful resume of a funded subscription succeeds.
C24_RecoveryThroughActive ==
    [][/\ (/\ result'.op \in {"charge_subscription", "pause_subscription"}
           /\ Has(subs, result'.id)
           /\ subs[result'.id].status = InsufficientBalanceStatus) =>
             result'.err # Ok
       /\ (/\ result'.op = "deposit_funds"
           /\ result'.err = Ok
           /\ Has(subs, result'.id)
           /\ subs[result'.id].status = InsufficientBalanceStatus) =>
             /\ subs'[result'.id].status = InsufficientBalanceStatus
             /\ subs'[result'.id].prepaid_balance = subs[result'.id].prepaid_balance + 1
       /\ (/\ result.op = "resume_subscription"
           /\ result.err = Ok
           /\ subs[result.id].prepaid_balance >= subs[result.id].amount
           /\ result'.op = "charge_subscription"
           /\ result'.id = result.id) =>
             result'.err = Ok]_vars

\* C25: after a successful cancel_subscription(id) no operation changes the
\* subscription's prepaid_balance or credits its merchant from it.  Stated
\* for the charge that follows the cancellation directly.
C25_CancelFreezesEscrow ==
    [][(/\ result.op = "cancel_subscription"
        /\ result.err = Ok
        /\ Has(subs, result.id)
        /\ result'.op = "charge_subscription"
        /\ result'.id = result.id) =>
          /\ subs'[result.id].prepaid_balance = subs[result.id].prepaid_balance
          /\ merchant_balance' = merchant_balance]_vars

\* C26: a stored subscription stays stored: in every later state
\* get_subscription(id) finds it, with the subscriber, merchant, amount,
\* interval_seconds and usage_enabled it was created with; an id returned by
\* create_subscription is stored.
C26_SubscriptionsPersist ==
    [][/\ \A id \in DOMAIN subs :
             /\ Has(subs', id)
             /\ subs'[id].subscriber = subs[id].subscriber
             /\ subs'[id].merchant = subs[id].merchant
             /\ subs'[id].amount = subs[id].amount
             /\ subs'[id].interval_seconds = subs[id].interval_seconds
             /\ subs'[id].usage_enabled = subs[id].usage_enabled
       /\ (result'.op = "create_subscription" /\ result'.err = Ok /\ "id" \in DOMAIN result')
             => Has(subs', result'.id)]_vars

C26_Witness ==
    /\ result.op = "cancel_subscription"
    /\ result.err = Ok
    /\ Has(subs, result.id)
    /\ get_subscription(result.id) = Some(subs[result.id])
    /\ subs[result.id].status # Active
    /\ subs[result.id].prepaid_balance = 0
    /\ subs[result.id].last_payment_timestamp = MaxTime

\* C27: the clock never goes back, and a subscription's
\* last_payment_timestamp never decreases: a new subscription has it equal to
\* the ledger time, a successful charge sets it to the ledger time, and no
\* other step changes it.
C27_TimestampMonotonic ==
    [][/\ now' >= now
       /\ \A id \in DOMAIN subs' :
             IF id \in DOMAIN subs
             THEN /\ subs'[id].last_payment_timestamp >= subs[id].last_payment_timestamp
                  /\ IF /\ result'.op = "charge_subscription"
                        /\ result'.err = Ok
                        /\ result'.id = id
                     THEN subs'[id].last_payment_timestamp = now
                     ELSE subs'[id].last_payment_timestamp
                             = subs[id].last_payment_timestamp
             ELSE /\ result'.op = "create_subscription"
                  /\ subs'[id].last_payment_timestamp = now]_vars

C27_Witness ==
    /\ result.op = "charge_subscription"
    /\ result.err = Ok
    /\ now = MaxTime
    /\ subs[result.id].last_payment_timestamp = MaxTime
    /\ subs[result.id].prepaid_balance = 0

\* C28: the next charge time reported for a stored subscription is
\* min(last_payment_timestamp + interval_seconds, u64::MAX): the sum
\* saturates and never wraps, an interval of 0 gives last_payment_timestamp
\* itself, and the status plays no part.
C28_NextChargeSaturates ==
    (result.op = "get_next_charge_info" /\ Has(subs, result.id)) =>
        LET subscription == subs[result.id]
            sum == subscription.last_payment_timestamp + subscription.interval_seconds
            next == Unwrap(result.info).next_charge_timestamp
        IN /\ IsSome(result.info)
           /\ next = IF sum <= U64Max THEN sum ELSE U64Max
           /\ next >= subscription.last_payment_timestamp
           /\ subscription.interval_seconds = 0
                 => next = subscription.last_payment_timestamp
           /\ \A st \in SubscriptionStatus :
                 compute_next_charge_info([subscription EXCEPT !.status = st])
                    .next_charge_timestamp = next

C28_Witness ==
    /\ result.op = "get_next_charge_info"
    /\ Has(subs, result.id)
    /\ subs[result.id].status = Cancelled
    /\ subs[result.id].last_payment_timestamp = U64Max - 1
    /\ subs[result.id].interval_seconds = 2
    /\ Unwrap(result.info).next_charge_timestamp = U64Max

\* C29: is_charge_expected reported for a stored subscription is true exactly
\* when its status is Active or InsufficientBalance, whatever its
\* prepaid_balance; the query changes no stored state; queried right after a
\* successful pause or cancel of the subscription it is false, and right
\* after a successful resume it is true.
C29_DueByStatus ==
    [][(result'.op = "get_next_charge_info" /\ Has(subs, result'.id)) =>
          LET expected == Unwrap(result'.info).is_charge_expected IN
          /\ expected = (subs[result'.id].status \in {Active, InsufficientBalanceStatus})
          /\ UNCHANGED state
          /\ (/\ result.op \in {"pause_subscription", "cancel_subscription"}
              /\ result.err = Ok
              /\ result.id = result'.id) => ~expected
          /\ (/\ result.op = "resume_subscription"
              /\ result.err = Ok
              /\ result.id = result'.id) => expected]_vars

\* Number of charges of subscription id that succeeded among the first n ids
\* of a batch.
RECURSIVE SuccessesBefore(_, _, _, _)
SuccessesBefore(ids, results, id, n) ==
    IF n = 0 THEN 0
    ELSE SuccessesBefore(ids, results, id, n - 1)
            + (IF ids[n] = id /\ results[n].success THEN 1 ELSE 0)

\* Amount credited to merchant m by the charges of a batch that succeeded,
\* among its first n ids.
RECURSIVE BatchCredit(_, _, _, _)
BatchCredit(ids, results, m, n) ==
    IF n = 0 THEN 0
    ELSE BatchCredit(ids, results, m, n - 1)
            + (IF results[n].success /\ subs[ids[n]].merchant = m
               THEN subs[ids[n]].amount ELSE 0)

\* C30: a batch over a list of ids yields one result per id, in order; the
\* i-th result is what charge_subscription gives for the i-th id on the
\* subscription as the earlier successful charges of the batch left it
\* ({success, 0} or {failure, the error's code}); and the ledger after the
\* batch holds the effect of every charge that succeeded, whatever failed
\* before or after it.
C30_BatchIsolation ==
    [][result'.op = "batch_charge" =>
         LET ids == result'.ids
             results == result'.results
             n == Len(ids)
         IN
         /\ Len(results) = n
         /\ \A i \in 1 .. n :
               LET id == ids[i]
                   expected ==
                       IF ~Has(subs, id) THEN NotFound
                       ELSE charge_subscription_check(
                               [subs[id] EXCEPT !.prepaid_balance =
                                   @ - subs[id].amount
                                         * SuccessesBefore(ids, results, id, i - 1)])
               IN /\ results[i].success = (expected = Ok)
                  /\ results[i].error_code = expected
         /\ DOMAIN subs' = DOMAIN subs
         /\ \A id \in DOMAIN subs :
               LET k == SuccessesBefore(ids, results, id, n) IN
               subs'[id] = [subs[id] EXCEPT
                               !.prepaid_balance = @ - subs[id].amount * k,
                               !.last_payment_timestamp = IF k > 0 THEN now ELSE @]
         /\ \A m \in Merchants :
               (IF Has(merchant_balance', m) THEN merchant_balance'[m] ELSE 0)
                  = read_merchant_balance(m) + BatchCredit(ids, results, m, n)]_vars

C30_Witness ==
    /\ result.op = "batch_charge"
    /\ Len(result.ids) = 3
    /\ result.ids[1] # result.ids[3]
    /\ result.results[1].success
    /\ ~result.results[2].success
    /\ result.results[3].success
    /\ \A i \in {1, 3} : subs[result.ids[i]].prepaid_balance = 0

RecoverResults(c, amt, r) ==
    { o \in {Ok, NotFound, Unauthorized, InvalidRecoveryAmount, HostTrap}
                \X (0 .. tok_balance[Vault]) :
         ENABLED (/\ recover_stranded_funds(c, "adm", amt, r)
                  /\ result'.err = o[1]
                  /\ tok_balance'[Vault] = o[2]) }

\* C32: a recovery, successful or not, leaves every subscription record and
\* every merchant balance as it was; and in every state a recovery with the
\* same caller and amount has the same result and moves the same tokens
\* whatever the reason code.
C32_RecoverOrthogonal ==
    /\ [][result'.op = "recover_stranded_funds" =>
             (subs' = subs /\ merchant_balance' = merchant_balance)]_vars
    /\ [](\A c \in RecoverCallers, amt \in RecoverAmounts :
             \A r \in RecoveryReason :
                /\ RecoverResults(c, amt, r) = RecoverResults(c, amt, "AccidentalTransfer")
                /\ Cardinality(RecoverResults(c, amt, r)) = 1)

\* A subscription was charged, the merchant holds a balance, and a recovery
\* has just taken tokens out of custody.
C32_Witness ==
    /\ result.op = "recover_stranded_funds"
    /\ result.err = Ok
    /\ \E id \in DOMAIN subs : subs[id].prepaid_balance > 0
    /\ \E m \in DOMAIN merchant_balance : merchant_balance[m] > 0

\* C33: set_min_topup succeeds only for the stored admin and a value above
\* zero, and get_min_topup then returns that value; called by anyone else, or
\* with a value of zero or less, it fails and the threshold stays; the
\* threshold of an initialized contract is above zero.
C33_MinTopupAdminOnly ==
    [][/\ result'.op = "set_min_topup" =>
             \A a \in AdminCallers, m \in TopupChoices :
                set_min_topup(a, m) =>
                   IF IsSome(admin) /\ a = Unwrap(admin) /\ m > 0
                   THEN result'.err = Ok /\ get_min_topup' = Some(m)
                   ELSE result'.err # Ok /\ min_topup' = min_topup
       /\ (IsSome(admin') /\ IsSome(token')) =>
             (IsSome(get_min_topup') /\ Unwrap(get_min_topup') > 0)]_vars

C33_Witness ==
    /\ result.op = "set_min_topup"
    /\ result.err = Ok
    /\ get_min_topup = Some(InitFunds + 1)
    /\ admin = Some("m2")

\* C34: set_merchant_config and update_merchant_config succeed only for the
\* merchant itself or the admin and a minimum amount (if given) of zero or
\* more; otherwise they fail, with Unauthorized for the actor and
\* InvalidAmount for the amount, and the stored config stays.  A successful
\* set stores {1, min, interval}; a successful update changes the fields
\* given and keeps the others.  Every stored config has version 1 and a
\* minimum of zero or more, and get_merchant_config returns the stored config
\* or {1, 0, 0}.
C34_MerchantConfigWrites ==
    [][/\ result'.op = "set_merchant_config" =>
             \A a \in AdminCallers, mn \in MinAmountChoices, di \in IntervalChoices :
                set_merchant_config(a, "m1", mn, di) =>
                   LET actor_ok == a = "m1" \/ (IsSome(admin) /\ a = Unwrap(admin)) IN
                   /\ result'.err = Ok => (actor_ok /\ mn >= 0)
                   /\ result'.err # Ok => merchant_config' = merchant_config
                   /\ IsSome(admin) =>
                         /\ (actor_ok /\ mn >= 0) =>
                               /\ result'.err = Ok
                               /\ get_merchant_config("m1")' =
                                     [version |-> 1, min_subscription_amount |-> mn,
                                      default_interval_seconds |-> di]
                         /\ (~actor_ok /\ mn >= 0) => result'.err = Unauthorized
                         /\ (actor_ok /\ mn < 0) => result'.err = InvalidAmount
                         /\ (~actor_ok /\ mn < 0) =>
                               result'.err \in {Unauthorized, InvalidAmount}
       /\ result'.op = "update_merchant_config" =>
             \A a \in AdminCallers, mn \in {None} \cup {Some(x) : x \in MinAmountChoices},
                di \in {None, Some(1)} :
                update_merchant_config(a, "m1", mn, di) =>
                   LET actor_ok == a = "m1" \/ (IsSome(admin) /\ a = Unwrap(admin))
                       min_ok == ~IsSome(mn) \/ Unwrap(mn) >= 0
                       stored == get_merchant_config("m1")
                   IN
                   /\ result'.err = Ok => (actor_ok /\ min_ok)
                   /\ result'.err # Ok => merchant_config' = merchant_config
                   /\ IsSome(admin) =>
                         /\ (actor_ok /\ min_ok) =>
                               /\ result'.err = Ok
                               /\ get_merchant_config("m1")' =
                                     [version |-> stored.version,
                                      min_subscription_amount |->
                                          IF IsSome(mn) THEN Unwrap(mn)
                                          ELSE stored.min_subscription_amount,
                                      default_interval_seconds |->
                                          IF IsSome(di) THEN Unwrap(di)
                                          ELSE stored.default_interval_seconds]
                         /\ (~actor_ok /\ min_ok) => result'.err = Unauthorized
                         /\ (actor_ok /\ ~min_ok) => result'.err = InvalidAmount
                         /\ (~actor_ok /\ ~min_ok) =>
                               result'.err \in {Unauthorized, InvalidAmount}
       /\ \A m \in DOMAIN merchant_config' :
             /\ merchant_config'[m].version = 1
             /\ merchant_config'[m].min_subscription_amount >= 0
       /\ \A m \in Merchants :
             get_merchant_config(m)' =
                IF Has(merchant_config', m) THEN merchant_config'[m]
                ELSE [version |-> 1, min_subscription_amount |-> 0,
                      default_interval_seconds |-> 0]]_vars

\* The merchant set a config, and the admin then changed the interval alone.
C34_Witness ==
    /\ result.op = "update_merchant_config"
    /\ result.err = Ok
    /\ Has(merchant_config, "m1")
    /\ merchant_config["m1"].min_subscription_amount = InitFunds
    /\ merchant_config["m1"].default_interval_seconds = 1

\* C39: once init has succeeded, the stored admin and token never change, and
\* the stored min_topup changes only in a set_min_topup called by the stored
\* admin.
C39_InitOneShot ==
    [][(IsSome(admin) /\ IsSome(token)) =>
          /\ admin' = admin
          /\ token' = token
          /\ min_topup' # min_topup => result'.op = "set_min_topup"]_vars

C36_NoLostUpdate ==
    [][\A m \in Merchants :
          LET before == read_merchant_balance(m)
              after == IF Has(merchant_balance', m) THEN merchant_balance'[m] ELSE 0
          IN
          /\ after - before =
                IF /\ result'.op = "charge_subscription"
                   /\ result'.err = Ok
                   /\ subs[result'.id].merchant = m
                THEN subs[result'.id].amount
                ELSE IF /\ result'.op = "withdraw_merchant_funds"
                        /\ result'.err = Ok
                        /\ result'.merchant = m
                     THEN 0 - result'.amount
                     ELSE 0
          /\ after = Earned(m)' - tok_balance'[m]]_vars

\* Two subscriptions of one merchant were charged and the merchant has
\* withdrawn part of the sum.
C36_Witness ==
    /\ result.op = "withdraw_merchant_funds"
    /\ result.err = Ok
    /\ tok_balance[result.merchant] = 1
    /\ merchant_balance[result.merchant] = 1
    /\ \E a, b \in DOMAIN subs :
          /\ a # b
          /\ subs[a].merchant = result.merchant
          /\ subs[b].merchant = result.merchant
          /\ subs[a].prepaid_balance = 0
          /\ subs[b].prepaid_balance = 0

\* C37: without recovery and without transfers from outside, the tokens the
\* vault holds equal the prepaid balances of all subscriptions plus the
\* balances of all merchants.
C37_VaultSolvency ==
    tok_balance[Vault] = TotalPrepaid + TotalMerchant

\* One subscription is uncharged, another was charged and its merchant has
\* withdrawn the tokens; and a deposit has been accepted.
C37_Witness ==
    /\ result.op = "deposit_funds"
    /\ result.err = Ok
    /\ TotalPrepaid > 0
    /\ tok_balance[Vault] > 0
    /\ \E m \in Merchants : tok_balance[m] > 0

C40_ChargeFrame ==
    [][/\ result'.op = "charge_subscription" =>
             /\ DOMAIN subs' = DOMAIN subs
             /\ \A o \in DOMAIN subs \ {result'.id} : subs'[o] = subs[o]
             /\ DOMAIN merchant_balance \subseteq DOMAIN merchant_balance'
             /\ \A m \in DOMAIN merchant_balance' :
                   (~Has(subs, result'.id) \/ m # subs[result'.id].merchant) =>
                      (Has(merchant_balance, m) /\ merchant_balance'[m] = merchant_balance[m])
             /\ UNCHANGED << merchant_config, next_id, min_topup, admin, token,
                             tok_balance, tok_allowance >>
       /\ result'.op = "withdraw_merchant_funds" =>
             /\ subs' = subs
             /\ DOMAIN merchant_balance \subseteq DOMAIN merchant_balance'
             /\ \A m \in DOMAIN merchant_balance' \ {result'.merchant} :
                   Has(merchant_balance, m) /\ merchant_balance'[m] = merchant_balance[m]]_vars

\* A charge of one subscription has succeeded while another subscription, of
\* another merchant, still holds its prepaid balance.
C40_Witness ==
    /\ result.op = "charge_subscription"
    /\ result.err = Ok
    /\ \E o \in DOMAIN subs :
          /\ o # result.id
          /\ subs[o].merchant # subs[result.id].merchant
          /\ subs[o].prepaid_balance > 0
    /\ tok_balance[Vault] = 2

====
